---- MODULE Spec2Model ----
(***************************************************************************)
(* Model of the backtest simulator (strategy-engine/app.py, run_backtest)  *)
(* and of the risk manager (strategy-engine/risk_manager.py).              *)
(*                                                                         *)
(* Arithmetic.  The program computes in binary floating point; the model   *)
(* computes the same expressions exactly, in scaled integers that fit the  *)
(* 32-bit integers of the model checker:                                   *)
(*   - a fraction of the portfolio (max_position_pct, max_risk_per_trade,  *)
(*     stop_loss_pct, max_leverage) is the integer f * PctScale,           *)
(*   - a cost rate (commission, slippage) is the integer r * CostScale,    *)
(*   - a price p is the integer p * PriceScale (cents),                    *)
(*   - an amount of money m, and a per-share effective price, is the       *)
(*     integer m * PriceScale * CostScale, so that a price times a         *)
(*     quantity times a cost rate is an exact amount of money,             *)
(*   - a stop-loss price is the integer p * PriceScale * PctScale.         *)
(***************************************************************************)
EXTENDS Integers, Sequences, FiniteSets, TLC

\* ------------------------------------------------------------------ scales
PctScale == 100

CostScale == 2000

PriceScale == 100

MoneyScale == PriceScale * CostScale

\* --------------------------------------------------------------- constants
\* app.py: MIN_TRADES_FOR_KELLY = 10
MIN_TRADES_FOR_KELLY == 10

\* run_backtest passes max_risk_per_trade=0.02 to RiskManager
RunMaxRiskPerTrade == 2

\* run_backtest passes min_position_value=100.0 to RiskManager
RunMinPositionValue == 100 * MoneyScale

\* RiskManager.__init__ default max_leverage=1.0 (run_backtest keeps it)
DefaultMaxLeverage == 100

\* RiskManager.__init__ default max_position_pct=0.2
DefaultMaxPositionPct == 20

\* RiskManager.__init__ default max_risk_per_trade=0.02
DefaultMaxRiskPerTrade == 2

\* RiskManager.__init__ default min_position_value=100.0
DefaultMinPositionValue == 100 * MoneyScale

\* RiskManager.__init__ defaults commission=0.001, slippage=0.0005
DefaultCommission == 2

DefaultSlippage == 1

\* run_backtest: calculate_stop_loss(..., fixed_pct=0.05)
StopLossFixedPct == 5

\* run_backtest: ticker = 'STOCK'
Ticker == "STOCK"

\* ------------------------------------------------------------------ bounds
\* longest input series explored
MaxSteps == 4

\* close prices offered to each step, in cents: 95.00, 95.01, 100.00, 110.00
Closes == {9500, 9501, 10000, 11000}

Signals == {"BUY", "SELL", "HOLD"}

\* run configurations explored (the arguments of run_backtest); cap in cents
Cfg(cap, rm, sl, slpct, c, s, mpp) ==
    [initial_capital |-> cap * CostScale, enable_risk_management |-> rm,
     use_kelly |-> FALSE, enable_stop_loss |-> sl, stop_loss_pct |-> slpct,
     commission |-> c, slippage |-> s, max_position_pct |-> mpp]

Configs ==
    { Cfg(500000, TRUE,  TRUE,  5, 2, 1, 95),     \* the default rates and limits
      Cfg(500000, TRUE,  FALSE, 5, 2, 1, 95),
      Cfg(500000, TRUE,  TRUE,  5, 2, 1, 20),     \* the 20% position cap binds
      Cfg(500000, TRUE,  TRUE,  2, 2, 1, 100),    \* sizing may use all the cash
      Cfg(200350, TRUE,  TRUE,  2, 2, 1, 100),
      Cfg(200350, FALSE, TRUE,  5, 2, 1, 95),     \* no risk management
      Cfg(200350, FALSE, FALSE, 5, 2, 1, 95),
      Cfg(26000,  TRUE,  TRUE,  5, 2, 1, 95),     \* small account
      Cfg(26000,  TRUE,  FALSE, 5, 2, 1, 95),
      Cfg(0,      TRUE,  TRUE,  5, 2, 1, 95),     \* no capital
      Cfg(500000, TRUE,  FALSE, 5, 1800, 400, 95),  \* commission 90%, slippage 20%
      Cfg(500000, TRUE,  TRUE,  5, 2, 1, 150) }   \* max_position_pct = 1.5

\* longest input series of the long runs, which complete ten round trips
MaxLongSteps == 22

\* the long runs differ only in use_kelly
LongConfigs ==
    { [Cfg(500000, TRUE, TRUE, 5, 2, 1, 95) EXCEPT !.use_kelly = k] : k \in BOOLEAN }

\* row i (from 0) of a long run: BUY at 100.00 on the even rows, SELL at 95.00
\* (which the stop-loss at 95.00 turns into a stop-loss exit) or at 110.00 on
\* the odd rows
LongSignal(i) == IF i % 2 = 0 THEN "BUY" ELSE "SELL"

LongCloses(i) == IF i % 2 = 0 THEN {10000} ELSE {9500, 11000}

\* longest input series that is run twice
MaxRerunRows == 3

\* the configurations run twice
RerunConfigs ==
    { Cfg(500000, TRUE, TRUE,  5, 2, 1, 95),
      Cfg(500000, TRUE, TRUE,  2, 2, 1, 100),
      Cfg(26000,  TRUE, FALSE, 5, 2, 1, 95) }

\* the input series run twice: every series of at most MaxRerunRows rows
RerunRows == [close : {9500, 10000, 11000}, signal : Signals]

RerunData == UNION { [1..n -> RerunRows] : n \in 0..MaxRerunRows }

\* inputs of the calls of validate_trade explored on their own: the cash, the
\* shares of the ticker held (marked at 100.00 a share), the value held in
\* another ticker, and the order
ValidateCash == {0, 99 * MoneyScale, 1000 * MoneyScale, 2002 * MoneyScale,
                 5000 * MoneyScale}

ValidateHeld == {0, 10}

ValidateOtherValue == {0, 1000 * MoneyScale}

ValidateQuantities == {-1, 0, 1, 5, 10, 11, 20}

ValidatePrices == {0, 9500, 10000}

\* inputs of the calls of calculate_position_size explored on their own
SizingCapitals == {0, 200 * MoneyScale, 240 * MoneyScale, 260 * MoneyScale, 1000 * MoneyScale,
                   5000 * MoneyScale, 10000 * MoneyScale}

SizingPrices == {0, 9500, 10000, 11000, 300000}

SizingStopLossPcts == {0, 2, 5, 10}

SizingMaxPositionPcts == {20, 95, 100}

\* inputs of the calls of calculate_position_size that lines 165-171 are to
\* turn away: capital in money, price in cents, stop_loss_pct in percent, each
\* negative, 0 or valid, and the statistics passed along (none, a winning
\* record, only losses, only wins)
GuardCapitals == {0 - MoneyScale, 0, 1000 * MoneyScale}
GuardPrices == {0 - 100, 0, 10000}
GuardStopLossPcts == {0 - 5, 0, 5}
GuardStats ==
    { [given |-> FALSE, wins |-> 0, trades |-> 0, avg_win |-> 0, avg_loss |-> 0],
      [given |-> TRUE, wins |-> 6, trades |-> 10, avg_win |-> 200, avg_loss |-> 100],
      [given |-> TRUE, wins |-> 0, trades |-> 10, avg_win |-> 0, avg_loss |-> 100],
      [given |-> TRUE, wins |-> 10, trades |-> 10, avg_win |-> 200, avg_loss |-> 0] }

\* inputs of the calls of apply_transaction_costs on its own: prices in cents,
\* share counts (0 and a negative one included), sides in either case, and the
\* (commission, slippage) rates of the manager
CostsPrices == {1, 9500, 10000, 11000}
CostsQuantities == {-1, 0, 1, 3, 47}
CostsSides == {"BUY", "SELL", "buy", "sell"}
CostsRates == {<<2, 1>>, <<0, 0>>, <<2, 0>>, <<1800, 400>>}

\* inputs of the Kelly calls of calculate_position_size explored on their own:
\* win_rate = wins / KellyTrades for wins in 0..KellyTrades
KellyTrades == 10

\* avg_win and avg_loss, whole currency amounts
KellyAmounts == {0, 50, 100, 200}

KellyCapitals == {1000 * MoneyScale, 10000 * MoneyScale}

\* ------------------------------------------------------------------- state
VARIABLES
    cfg,                   \* the arguments of this run_backtest call
    pc,                    \* "loop" while iterating over data, then "done"
    idx,                   \* number of rows of data processed so far
    row,                   \* the row processed last: [close, signal]
    cash,                  \* portfolio.cash
    positions,             \* portfolio.positions: ticker -> shares
    position_values,       \* portfolio.position_values: ticker -> value
    entry_prices,          \* entry_prices: ticker -> price (cents)
    stop_loss_prices,      \* stop_loss_prices: ticker -> stop-loss price
    equity_curve,
    trades,
    rejected_trades,
    trade_history,
    total_commission,
    total_slippage,
    stop_losses_triggered,
    kelly_sizings,         \* number of Buys sized through the Kelly branch
    sz,                    \* one call of a RiskManager method: inputs, result
    now,                   \* time.time(), in whole seconds
    request,               \* Redis keys request:<id>: id -> QueuedRequest
    queue_key,             \* sorted set request_queue:pending: id -> score
    processing_key,        \* set request_queue:processing
    completed_key,         \* sorted set request_queue:completed, its members
    failed_key,            \* sorted set request_queue:failed, its members
    tokens_key,            \* Redis key rate_limit:<resource>:<id>:tokens
    timestamp_key,         \* Redis key rate_limit:<resource>:<id>:timestamp
    worker,                \* each worker's check_rate_limit call in progress
    admitted               \* number of check_rate_limit calls that returned True

\* the state of the Redis-backed services (request queue and rate limiter)
serviceVars == <<now, request, queue_key, processing_key, completed_key,
                 failed_key, tokens_key, timestamp_key, worker, admitted>>

vars == <<cfg, pc, idx, row, cash, positions, position_values, entry_prices,
          stop_loss_prices, equity_curve, trades, rejected_trades,
          trade_history, total_commission, total_slippage,
          stop_losses_triggered, kelly_sizings, sz, serviceVars>>

runVars == <<cfg, pc, idx, row, cash, positions, position_values, entry_prices,
             stop_loss_prices, equity_curve, trades, rejected_trades,
             trade_history, total_commission, total_slippage,
             stop_losses_triggered, kelly_sizings>>

\* ------------------------------------------------------------ dictionaries
EmptyDict == [t \in {} |-> 0]

Has(d, t) == t \in DOMAIN d

Put(d, t, v) == [x \in (DOMAIN d) \cup {t} |-> IF x = t THEN v ELSE d[x]]

\* del d[t] left out
Del_Keep(d, t) == d

Del(d, t) == [x \in (DOMAIN d) \ {t} |-> d[x]]

Get(d, t, default) == IF t \in DOMAIN d THEN d[t] ELSE default

RECURSIVE SumOver(_, _)
SumOver(d, S) ==
    IF S = {} THEN 0
    ELSE LET t == CHOOSE x \in S : TRUE IN d[t] + SumOver(d, S \ {t})

SumValues(d) == SumOver(d, DOMAIN d)

Min2(a, b) == IF a <= b THEN a ELSE b

Max2(a, b) == IF a >= b THEN a ELSE b

\* floor(a * b / c) for a >= 0, b >= 0, c > 0, without forming a * b
MulDivFloor(a, b, c) == (a \div c) * b + ((a % c) * b) \div c

\* --------------------------------------------------------------- Portfolio
\* Portfolio.total_value: cash + sum(position_values.values())
total_value(c, pv) == c + SumValues(pv)

\* Portfolio.invested_value
invested_value(pv) == SumValues(pv)

\* ------------------------------------------------------------- RiskManager
\* RiskManager.__init__: the object is its six parameters
RiskManager(c, s, mpp, mrpt, minpv, lev) ==
    [commission |-> c, slippage |-> s, max_position_pct |-> mpp,
     max_risk_per_trade |-> mrpt, min_position_value |-> minpv,
     max_leverage |-> lev]

\* the risk manager run_backtest builds from its arguments
risk_mgr ==
    RiskManager(cfg.commission, cfg.slippage, cfg.max_position_pct,
                RunMaxRiskPerTrade, RunMinPositionValue, DefaultMaxLeverage)

\* no win_rate / avg_win / avg_loss supplied (the arguments default to None)
NoStats == [given |-> FALSE]

\* calculate_position_size: max_position_value = capital * max_position_pct,
\* rounded down to a whole money unit
max_position_value(rm, capital) ==
    MulDivFloor(capital, rm.max_position_pct, PctScale)

\* calculate_position_size:
\* risk_based_value = (capital * max_risk_per_trade) / stop_loss_pct,
\* rounded down to a whole money unit
risk_based_value(rm, capital, stop_loss_pct) ==
    MulDivFloor(capital, rm.max_risk_per_trade, stop_loss_pct)

\* position_value without the max_position_pct cap
position_value_RiskOnly(rm, capital, stop_loss_pct) ==
    risk_based_value(rm, capital, stop_loss_pct)

\* calculate_position_size: position_value = min(max_position_value,
\* risk_based_value).  Rounding both down to whole money units changes
\* neither the comparison with the whole number min_position_value nor the
\* integer part of position_value / price.
position_value(rm, capital, stop_loss_pct) ==
    Min2(max_position_value(rm, capital),
         risk_based_value(rm, capital, stop_loss_pct))

\* calculate_position_size without the min_position_value test
calculate_position_size_NoMinimum(rm, capital, price, stop_loss_pct, stats, use_kelly) ==
    IF capital <= 0 \/ price <= 0 \/ stop_loss_pct <= 0 THEN 0
    ELSE position_value(rm, capital, stop_loss_pct) \div (price * CostScale)

\* RiskManager.calculate_position_size.  capital: money, price: cents.
\* The Kelly branch (lines 175-191) assigns kelly_fraction, which lines
\* 196-220 never read: the share count is computed from max_position_pct and
\* max_risk_per_trade whichever branch was taken.
calculate_position_size(rm, capital, price, stop_loss_pct, stats, use_kelly) ==
    IF capital <= 0 \/ price <= 0 \/ stop_loss_pct <= 0 THEN 0
    ELSE IF position_value(rm, capital, stop_loss_pct) < rm.min_position_value
        THEN 0
    ELSE position_value(rm, capital, stop_loss_pct) \div (price * CostScale)

\* win_rate, avg_win and avg_loss as supplied to calculate_position_size:
\* win_rate is the fraction wins / trades, the averages are whole amounts
Stats(wins, n, avg_win, avg_loss) ==
    [given |-> TRUE, wins |-> wins, trades |-> n,
     avg_win |-> avg_win, avg_loss |-> avg_loss]

\* a fraction num / den with den > 0
Frac(num, den) == [num |-> num, den |-> den]

FracLeq(x, y) == x.num * y.den <= y.num * x.den

FracMin(x, y) == IF FracLeq(x, y) THEN x ELSE y

FracMax(x, y) == IF FracLeq(y, x) THEN x ELSE y

Abs(x) == IF x < 0 THEN -x ELSE x

\* calculate_position_size reaches lines 179-185, the Kelly arithmetic
KellyBranchTaken(capital, price, stop_loss_pct, stats, use_kelly) ==
    /\ ~(capital <= 0 \/ price <= 0 \/ stop_loss_pct <= 0)
    /\ use_kelly
    /\ stats.given

\* the Kelly arithmetic reached whatever capital, price and stop_loss_pct are
calculate_position_size_raises_Unguarded(capital, price, stop_loss_pct, stats, use_kelly) ==
    /\ use_kelly
    /\ stats.given
    /\ stats.avg_loss # 0
    /\ stats.avg_win = 0

\* line 182 divides by b = abs(avg_win / avg_loss): with avg_win = 0 and
\* avg_loss # 0 the division raises ZeroDivisionError and the call returns
\* nothing
calculate_position_size_raises(capital, price, stop_loss_pct, stats, use_kelly) ==
    /\ KellyBranchTaken(capital, price, stop_loss_pct, stats, use_kelly)
    /\ stats.avg_loss # 0
    /\ stats.avg_win = 0

\* lines 176-185: kelly_fraction, for avg_win # 0.  With p = wins / trades and
\* b = |avg_win| / |avg_loss|, (p * b - q) / b * 0.5 is the fraction
\* (wins * |avg_win| - (trades - wins) * |avg_loss|) / (2 * trades * |avg_win|),
\* which line 185 clamps: max(0, min(. , max_position_pct))
kelly_fraction(rm, stats) ==
    IF stats.avg_loss = 0 THEN Frac(0, 1)
    ELSE FracMax(Frac(0, 1),
             FracMin(Frac(stats.wins * Abs(stats.avg_win)
                              - (stats.trades - stats.wins) * Abs(stats.avg_loss),
                          2 * stats.trades * Abs(stats.avg_win)),
                     Frac(rm.max_position_pct, PctScale)))

\* the TransactionCosts dataclass
TransactionCosts(c, s, t, e) ==
    [commission |-> c, slippage |-> s, total_cost |-> t, effective_price |-> e]

\* side.upper() for the sides passed in
upper(side) ==
    IF side = "buy" THEN "BUY" ELSE IF side = "sell" THEN "SELL" ELSE side

\* apply_transaction_costs with the slippage raising the price on either side
apply_transaction_costs_SellPaysMore(rm, price, quantity, side) ==
    IF quantity = 0 THEN TransactionCosts(0, 0, 0, price * CostScale)
    ELSE LET trade_value == price * quantity
             comm == trade_value * rm.commission
             slip == trade_value * rm.slippage
             eff  == price * (CostScale + rm.slippage)
         IN TransactionCosts(comm, slip, comm + slip, eff)

\* RiskManager.apply_transaction_costs.  price: cents; the results are money
apply_transaction_costs(rm, price, quantity, side) ==
    IF quantity = 0 THEN TransactionCosts(0, 0, 0, price * CostScale)
    ELSE LET trade_value == price * quantity
             comm == trade_value * rm.commission
             slip == trade_value * rm.slippage
             eff  == IF upper(side) = "BUY"
                     THEN price * (CostScale + rm.slippage)
                     ELSE price * (CostScale - rm.slippage)
         IN TransactionCosts(comm, slip, comm + slip, eff)

\* validate_trade with the cash test leaving out the transaction costs
validate_trade_NoCosts(rm, c, pos, pv, ticker, quantity, price, side) ==
    LET trade_value    == quantity * price * CostScale
        costs          == apply_transaction_costs(rm, price, quantity, side)
        total_required == trade_value
        new_position   == Get(pv, ticker, 0) + trade_value
        new_invested   == invested_value(pv) + trade_value
        tv             == total_value(c, pv)
    IN  IF quantity <= 0 THEN [ok |-> FALSE, reason |-> "quantity"]
        ELSE IF price <= 0 THEN [ok |-> FALSE, reason |-> "price"]
        ELSE IF side \notin {"BUY", "SELL"} THEN [ok |-> FALSE, reason |-> "side"]
        ELSE IF trade_value < rm.min_position_value
            THEN [ok |-> FALSE, reason |-> "below minimum"]
        ELSE IF side = "BUY" /\ total_required > c
            THEN [ok |-> FALSE, reason |-> "insufficient cash"]
        ELSE IF side = "SELL" /\ quantity > Get(pos, ticker, 0)
            THEN [ok |-> FALSE, reason |-> "insufficient shares"]
        ELSE IF side = "BUY" /\ tv > 0
                /\ new_position > MulDivFloor(tv, rm.max_position_pct, PctScale)
            THEN [ok |-> FALSE, reason |-> "max size"]
        ELSE IF side = "BUY" /\ tv > 0
                /\ new_invested > MulDivFloor(tv, rm.max_leverage, PctScale)
            THEN [ok |-> FALSE, reason |-> "max leverage"]
        ELSE [ok |-> TRUE, reason |-> "Trade validated"]

\* RiskManager.validate_trade, on the portfolio (c, pos, pv).
\* x / total > limit is decided as x > floor(total * limit), x being whole.
validate_trade(rm, c, pos, pv, ticker, quantity, price, side) ==
    LET trade_value    == quantity * price * CostScale
        costs          == apply_transaction_costs(rm, price, quantity, side)
        total_required == trade_value + costs.total_cost
        new_position   == Get(pv, ticker, 0) + trade_value
        new_invested   == invested_value(pv) + trade_value
        tv             == total_value(c, pv)
    IN  IF quantity <= 0 THEN [ok |-> FALSE, reason |-> "quantity"]
        ELSE IF price <= 0 THEN [ok |-> FALSE, reason |-> "price"]
        ELSE IF side \notin {"BUY", "SELL"} THEN [ok |-> FALSE, reason |-> "side"]
        ELSE IF trade_value < rm.min_position_value
            THEN [ok |-> FALSE, reason |-> "below minimum"]
        ELSE IF side = "BUY" /\ total_required > c
            THEN [ok |-> FALSE, reason |-> "insufficient cash"]
        ELSE IF side = "SELL" /\ quantity > Get(pos, ticker, 0)
            THEN [ok |-> FALSE, reason |-> "insufficient shares"]
        ELSE IF side = "BUY" /\ tv > 0
                /\ new_position > MulDivFloor(tv, rm.max_position_pct, PctScale)
            THEN [ok |-> FALSE, reason |-> "max size"]
        ELSE IF side = "BUY" /\ tv > 0
                /\ new_invested > MulDivFloor(tv, rm.max_leverage, PctScale)
            THEN [ok |-> FALSE, reason |-> "max leverage"]
        ELSE [ok |-> TRUE, reason |-> "Trade validated"]

\* RiskManager.calculate_stop_loss with fixed_pct given and side BUY.
\* entry_price: cents; the result is a stop-loss price
calculate_stop_loss(entry_price, fixed_pct) == entry_price * (PctScale - fixed_pct)

\* RiskManager.get_max_shares_affordable.  c: money, price: cents
get_max_shares_affordable(rm, c, price) ==
    IF c <= 0 \/ price <= 0 THEN 0
    ELSE Max2(0, c \div (price * (CostScale + rm.slippage + rm.commission)))

\* ------------------------------------------------------------ run_backtest
\* entries of the trades list; a field a kind of trade does not carry is 0
Trade(date, signal, price, eff, shares, cost, proceeds, comm, slip, value, pnl, stop) ==
    [date |-> date, signal |-> signal, price |-> price, effective_price |-> eff,
     shares |-> shares, cost |-> cost, proceeds |-> proceeds,
     commission |-> comm, slippage |-> slip, portfolio_value |-> value,
     pnl |-> pnl, stop_loss |-> stop]

\* entries of trade_history (completed round trips)
RoundTrip(entry, exit, shares, pnl) ==
    [entry_price |-> entry, exit_price |-> exit, shares |-> shares,
     pnl |-> pnl, profit |-> (pnl > 0)]

\* entries of rejected_trades
Rejected(date, signal, reason) ==
    [date |-> date, signal |-> signal, reason |-> reason]

\* the position values left as the previous step valued them
MarkToMarket_Stale(close) == position_values

\* lines 268-270: portfolio.position_values[t] = portfolio.positions[t] * current_price
MarkToMarket(close) ==
    [t \in (DOMAIN position_values) \cup (DOMAIN positions) |->
        IF t \in DOMAIN positions THEN positions[t] * close * CostScale
        ELSE position_values[t]]

\* the stop-loss test with a strict comparison
StopTriggered_Strict(close) ==
    /\ cfg.enable_stop_loss
    /\ Has(positions, Ticker)
    /\ Has(stop_loss_prices, Ticker)
    /\ close * PctScale < stop_loss_prices[Ticker]

\* lines 273-274: the stop-loss test
StopTriggered(close) ==
    /\ cfg.enable_stop_loss
    /\ Has(positions, Ticker)
    /\ Has(stop_loss_prices, Ticker)
    /\ close * PctScale <= stop_loss_prices[Ticker]

\* lines 341-346: the statistics handed to the Kelly branch
KellyStats == [given |-> TRUE]

\* the test of line 340 with > in place of >=
KellyBranch_Strict == cfg.use_kelly /\ Len(trade_history) > MIN_TRADES_FOR_KELLY

\* line 340: the test that sends the sizing of a Buy through the Kelly branch
KellyBranch == cfg.use_kelly /\ Len(trade_history) >= MIN_TRADES_FOR_KELLY

\* lines 336-373: the share count of a Buy
BuyShares(close) ==
    IF cfg.enable_risk_management
    THEN IF KellyBranch
         THEN calculate_position_size(risk_mgr, cash, close, cfg.stop_loss_pct,
                                      KellyStats, TRUE)
         ELSE calculate_position_size(risk_mgr, cash, close, cfg.stop_loss_pct,
                                      NoStats, FALSE)
    ELSE get_max_shares_affordable(risk_mgr, cash, close)

\* lines 377-384: validation of the Buy against the re-marked portfolio
BuyValidation(close) ==
    validate_trade(risk_mgr, cash, positions, MarkToMarket(close), Ticker,
                   BuyShares(close), close, "BUY")

\* lines 402-409: total_cost = shares * costs.effective_price + costs.total_cost
BuyTotalCost(close) ==
    LET costs == apply_transaction_costs(risk_mgr, close, BuyShares(close), "BUY")
    IN  BuyShares(close) * costs.effective_price + costs.total_cost

\* lines 468-475: validation of the Sell of the whole position
SellValidation(close) ==
    validate_trade(risk_mgr, cash, positions, MarkToMarket(close), Ticker,
                   positions[Ticker], close, "SELL")

\* lines 294 and 500: proceeds = shares * costs.effective_price - costs.total_cost
ExitProceeds(close) ==
    LET costs == apply_transaction_costs(risk_mgr, close, positions[Ticker], "SELL")
    IN  positions[Ticker] * costs.effective_price - costs.total_cost

\* the loop body with the signal acted on before the stop-loss test
Path_SignalFirst(close, signal) ==
    IF signal = "SELL" /\ Has(positions, Ticker) /\ positions[Ticker] > 0 THEN
        IF cfg.enable_risk_management /\ ~SellValidation(close).ok
            THEN "sell_rejected"
        ELSE "sell"
    ELSE IF StopTriggered(close) THEN "stop_loss"
    ELSE IF signal = "BUY" /\ ~Has(positions, Ticker) THEN
        IF BuyShares(close) > 0 THEN
            IF cfg.enable_risk_management /\ ~BuyValidation(close).ok
                THEN "buy_rejected"
            ELSE IF BuyTotalCost(close) <= cash THEN "buy"
            ELSE "buy_unaffordable"
        ELSE "buy_zero"
    ELSE "noop"

\* the loop body without the test total_cost <= portfolio.cash
Path_NoCashCheck(close, signal) ==
    IF StopTriggered(close) THEN "stop_loss"
    ELSE IF signal = "BUY" /\ ~Has(positions, Ticker) THEN
        IF BuyShares(close) > 0 THEN
            IF cfg.enable_risk_management /\ ~BuyValidation(close).ok
                THEN "buy_rejected"
            ELSE "buy"
        ELSE "buy_zero"
    ELSE IF signal = "SELL" /\ Has(positions, Ticker) THEN
        IF positions[Ticker] > 0 THEN
            IF cfg.enable_risk_management /\ ~SellValidation(close).ok
                THEN "sell_rejected"
            ELSE "sell"
        ELSE "noop"
    ELSE "noop"

\* the loop body without the test `ticker not in portfolio.positions`
Path_BuyWhileLong(close, signal) ==
    IF StopTriggered(close) THEN "stop_loss"
    ELSE IF signal = "BUY" THEN
        IF BuyShares(close) > 0 THEN
            IF cfg.enable_risk_management /\ ~BuyValidation(close).ok
                THEN "buy_rejected"
            ELSE IF BuyTotalCost(close) <= cash THEN "buy"
            ELSE "buy_unaffordable"
        ELSE "buy_zero"
    ELSE IF signal = "SELL" /\ Has(positions, Ticker) THEN
        IF positions[Ticker] > 0 THEN
            IF cfg.enable_risk_management /\ ~SellValidation(close).ok
                THEN "sell_rejected"
            ELSE "sell"
        ELSE "noop"
    ELSE "noop"

\* the branch of the loop body that the row (close, signal) takes
Path(close, signal) ==
    IF StopTriggered(close) THEN "stop_loss"
    ELSE IF signal = "BUY" /\ ~Has(positions, Ticker) THEN
        IF BuyShares(close) > 0 THEN
            IF cfg.enable_risk_management /\ ~BuyValidation(close).ok
                THEN "buy_rejected"
            ELSE IF BuyTotalCost(close) <= cash THEN "buy"
            ELSE "buy_unaffordable"
        ELSE "buy_zero"
    ELSE IF signal = "SELL" /\ Has(positions, Ticker) THEN
        IF positions[Ticker] > 0 THEN
            IF cfg.enable_risk_management /\ ~SellValidation(close).ok
                THEN "sell_rejected"
            ELSE "sell"
        ELSE "noop"
    ELSE "noop"

\* lines 334-363: the row reaches the sizing of a Buy and line 340 sends it
\* through the Kelly branch (which logs "Kelly Criterion position sizing")
SizedByKelly(close, signal) ==
    /\ Path(close, signal) \in {"buy", "buy_rejected", "buy_zero", "buy_unaffordable"}
    /\ cfg.enable_risk_management
    /\ KellyBranch

\* line 263: the loop takes the next row of data
NextRow(close, signal) ==
    /\ pc = "loop"
    /\ idx' = idx + 1
    /\ row' = [close |-> close, signal |-> signal]
    /\ kelly_sizings' = IF SizedByKelly(close, signal) THEN kelly_sizings + 1
                        ELSE kelly_sizings
    /\ UNCHANGED <<cfg, pc, sz, serviceVars>>

\* the snapshot left out on the iterations that end in a rejection
RecordEquity_NotOnRejection ==
    equity_curve' = IF rejected_trades' # rejected_trades THEN equity_curve
                    ELSE Append(equity_curve, total_value(cash', position_values'))

\* lines 330, 398, 489, 551: equity_curve.append(portfolio.total_value)
RecordEquity ==
    equity_curve' = Append(equity_curve, total_value(cash', position_values'))

\* lines 272-331: the stop-loss exit, which ends the iteration
StopLossExit(close, signal) ==
    /\ NextRow(close, signal)
    /\ Path(close, signal) = "stop_loss"
    /\ LET shares     == positions[Ticker]
           costs      == apply_transaction_costs(risk_mgr, close, shares, "SELL")
           proceeds   == ExitProceeds(close)
           entry_cost == entry_prices[Ticker] * shares * CostScale
           pnl        == proceeds - entry_cost
       IN  /\ cash' = cash + proceeds
           /\ positions' = Del(positions, Ticker)
           /\ position_values' = Del(MarkToMarket(close), Ticker)
           /\ entry_prices' = Del(entry_prices, Ticker)
           /\ stop_loss_prices' = Del(stop_loss_prices, Ticker)
           /\ total_commission' = total_commission + costs.commission
           /\ total_slippage' = total_slippage + costs.slippage
           /\ stop_losses_triggered' = stop_losses_triggered + 1
           /\ trades' = Append(trades,
                  Trade(idx + 1, "STOP_LOSS", close, costs.effective_price,
                        shares, 0, proceeds, costs.commission, costs.slippage,
                        total_value(cash', position_values'), pnl, 0))
           /\ trade_history' = Append(trade_history,
                  RoundTrip(entry_prices[Ticker], close, shares, pnl))
    /\ UNCHANGED rejected_trades
    /\ RecordEquity

\* the rejected Buy charged the commission and slippage of the order
BuyRejected_ChargesCosts(close, signal) ==
    /\ NextRow(close, signal)
    /\ Path(close, signal) = "buy_rejected"
    /\ position_values' = MarkToMarket(close)
    /\ rejected_trades' = Append(rejected_trades,
           Rejected(idx + 1, "BUY", BuyValidation(close).reason))
    /\ total_commission' = total_commission
           + apply_transaction_costs(risk_mgr, close, BuyShares(close), "BUY").commission
    /\ total_slippage' = total_slippage
           + apply_transaction_costs(risk_mgr, close, BuyShares(close), "BUY").slippage
    /\ UNCHANGED <<cash, positions, entry_prices, stop_loss_prices, trades,
                   trade_history, stop_losses_triggered>>
    /\ RecordEquity

\* lines 386-399: the Buy that validate_trade rejects
BuyRejected(close, signal) ==
    /\ NextRow(close, signal)
    /\ Path(close, signal) = "buy_rejected"
    /\ position_values' = MarkToMarket(close)
    /\ rejected_trades' = Append(rejected_trades,
           Rejected(idx + 1, "BUY", BuyValidation(close).reason))
    /\ UNCHANGED <<cash, positions, entry_prices, stop_loss_prices, trades,
                   trade_history, total_commission, total_slippage,
                   stop_losses_triggered>>
    /\ RecordEquity

\* lines 401-461: the Buy that executes
BuyExecuted(close, signal) ==
    /\ NextRow(close, signal)
    /\ Path(close, signal) = "buy"
    /\ LET shares == BuyShares(close)
           costs  == apply_transaction_costs(risk_mgr, close, shares, "BUY")
       IN  /\ cash' = cash - BuyTotalCost(close)
           /\ positions' = Put(positions, Ticker, shares)
           /\ position_values' =
                  Put(MarkToMarket(close), Ticker, shares * close * CostScale)
           /\ IF cfg.enable_stop_loss
              THEN /\ stop_loss_prices' = Put(stop_loss_prices, Ticker,
                          calculate_stop_loss(close, StopLossFixedPct))
                   /\ entry_prices' = Put(entry_prices, Ticker, close)
              ELSE UNCHANGED <<stop_loss_prices, entry_prices>>
           /\ total_commission' = total_commission + costs.commission
           /\ total_slippage' = total_slippage + costs.slippage
           /\ trades' = Append(trades,
                  Trade(idx + 1, "BUY", close, costs.effective_price, shares,
                        BuyTotalCost(close), 0, costs.commission, costs.slippage,
                        total_value(cash', position_values'), 0,
                        Get(stop_loss_prices', Ticker, 0)))
    /\ UNCHANGED <<rejected_trades, trade_history, stop_losses_triggered>>
    /\ RecordEquity

\* lines 375 and 411: a Buy of zero shares, or one whose total cost exceeds the
\* cash, changes nothing and records nothing
BuySkipped(close, signal) ==
    /\ NextRow(close, signal)
    /\ Path(close, signal) \in {"buy_zero", "buy_unaffordable"}
    /\ position_values' = MarkToMarket(close)
    /\ UNCHANGED <<cash, positions, entry_prices, stop_loss_prices, trades,
                   rejected_trades, trade_history, total_commission,
                   total_slippage, stop_losses_triggered>>
    /\ RecordEquity

\* the rejected Sell forgetting the stop-loss and entry prices of the position
SellRejected_DropsStop(close, signal) ==
    /\ NextRow(close, signal)
    /\ Path(close, signal) = "sell_rejected"
    /\ position_values' = MarkToMarket(close)
    /\ rejected_trades' = Append(rejected_trades,
           Rejected(idx + 1, "SELL", SellValidation(close).reason))
    /\ entry_prices' = Del(entry_prices, Ticker)
    /\ stop_loss_prices' = Del(stop_loss_prices, Ticker)
    /\ UNCHANGED <<cash, positions, trades,
                   trade_history, total_commission, total_slippage,
                   stop_losses_triggered>>
    /\ RecordEquity

\* the rejected Sell raising instead of recording: the run stops there
SellRejected_Raises(close, signal) ==
    /\ pc = "loop"
    /\ Path(close, signal) = "sell_rejected"
    /\ pc' = "raised"
    /\ UNCHANGED <<cfg, idx, row, cash, positions, position_values,
                   entry_prices, stop_loss_prices, equity_curve, trades,
                   rejected_trades, trade_history, total_commission,
                   total_slippage, stop_losses_triggered, kelly_sizings, sz, serviceVars>>

\* lines 477-490: the Sell that validate_trade rejects
SellRejected(close, signal) ==
    /\ NextRow(close, signal)
    /\ Path(close, signal) = "sell_rejected"
    /\ position_values' = MarkToMarket(close)
    /\ rejected_trades' = Append(rejected_trades,
           Rejected(idx + 1, "SELL", SellValidation(close).reason))
    /\ UNCHANGED <<cash, positions, entry_prices, stop_loss_prices, trades,
                   trade_history, total_commission, total_slippage,
                   stop_losses_triggered>>
    /\ RecordEquity

\* lines 492-548: the Sell that executes
SellExecuted(close, signal) ==
    /\ NextRow(close, signal)
    /\ Path(close, signal) = "sell"
    /\ LET shares     == positions[Ticker]
           costs      == apply_transaction_costs(risk_mgr, close, shares, "SELL")
           proceeds   == ExitProceeds(close)
           entry_cost == Get(entry_prices, Ticker, close) * shares * CostScale
           pnl        == proceeds - entry_cost
       IN  /\ cash' = cash + proceeds
           /\ positions' = Del(positions, Ticker)
           /\ position_values' = Del(MarkToMarket(close), Ticker)
           /\ entry_prices' = Del(entry_prices, Ticker)
           /\ stop_loss_prices' = Del(stop_loss_prices, Ticker)
           /\ total_commission' = total_commission + costs.commission
           /\ total_slippage' = total_slippage + costs.slippage
           /\ trades' = Append(trades,
                  Trade(idx + 1, "SELL", close, costs.effective_price, shares,
                        0, proceeds, costs.commission, costs.slippage,
                        total_value(cash', position_values'), pnl, 0))
           /\ trade_history' = Append(trade_history,
                  RoundTrip(Get(entry_prices, Ticker, close), close, shares, pnl))
    /\ UNCHANGED <<rejected_trades, stop_losses_triggered>>
    /\ RecordEquity

\* HOLD, BUY while long, SELL while flat: only the mark and the snapshot
NoAction(close, signal) ==
    /\ NextRow(close, signal)
    /\ Path(close, signal) = "noop"
    /\ position_values' = MarkToMarket(close)
    /\ UNCHANGED <<cash, positions, entry_prices, stop_loss_prices, trades,
                   rejected_trades, trade_history, total_commission,
                   total_slippage, stop_losses_triggered>>
    /\ RecordEquity

\* lines 553-557: the loop is over; an empty curve becomes [initial_capital]
Finish ==
    /\ pc = "loop"
    /\ pc' = "done"
    /\ equity_curve' = IF Len(equity_curve) = 0 THEN <<cfg.initial_capital>>
                       ELSE equity_curve
    /\ UNCHANGED <<cfg, idx, row, cash, positions, position_values,
                   entry_prices, stop_loss_prices, trades, rejected_trades,
                   trade_history, total_commission, total_slippage,
                   stop_losses_triggered, kelly_sizings, sz, serviceVars>>

\* ------------------------------------------------- run_backtest: metrics
IsBuy(t) == t.signal = "BUY"

IsSell(t) == t.signal = "SELL"

\* line 578
buy_trades == SelectSeq(trades, IsBuy)

\* line 579
sell_trades == SelectSeq(trades, IsSell)

\* lines 577-584: the number of i < min(len(buy_trades), len(sell_trades)) with
\* sell_trades[i]['proceeds'] > buy_trades[i]['cost']; 0 with fewer than 2 trades
profitable_trades ==
    IF Len(trades) >= 2
    THEN Cardinality({i \in 1..Min2(Len(buy_trades), Len(sell_trades)) :
                         sell_trades[i].proceeds > buy_trades[i].cost})
    ELSE 0

\* lines 577-588: win_rate, in percent, as a fraction
win_rate ==
    IF Len(trades) >= 2 /\ Len(sell_trades) > 0
    THEN Frac(profitable_trades * 100, Len(sell_trades))
    ELSE Frac(0, 1)

\* a / b <= c / d for a, c >= 0 and b, d > 0, decided on the integer parts and
\* then on the fractional parts, without forming a * d or c * b
RECURSIVE RatioLeq(_, _, _, _)
RatioLeq(a, b, c, d) ==
    IF a \div b # c \div d THEN a \div b < c \div d
    ELSE IF a % b = 0 THEN TRUE
    ELSE IF c % d = 0 THEN FALSE
    ELSE RatioLeq(d, c % d, b, a % b)

\* lines 554-557: the equity curve the metrics are computed from
metrics_curve ==
    IF Len(equity_curve) = 0 THEN <<cfg.initial_capital>> ELSE equity_curve

\* line 559: returns = np.diff(equity_curve) / equity_curve[:-1], or [0] for a
\* curve of one point.  A fraction with den = 0 is numpy's nan or inf.
returns ==
    IF Len(metrics_curve) > 1
    THEN [i \in 1..(Len(metrics_curve) - 1) |->
             Frac(metrics_curve[i + 1] - metrics_curve[i], metrics_curve[i])]
    ELSE <<Frac(0, 1)>>

\* line 562
final_capital == metrics_curve[Len(metrics_curve)]

\* line 563: total_return = (final_capital - initial_capital) / initial_capital
\* * 100, as a fraction (initial_capital is a whole multiple of 100 money
\* units); den = 0 is numpy's nan or inf
total_return ==
    Frac(final_capital - cfg.initial_capital, cfg.initial_capital \div 100)

\* the returns are all finite and 0, so np.std(returns) is exactly 0
ReturnsAllZero ==
    \A i \in 1..Len(returns) : returns[i].den # 0 /\ returns[i].num = 0

\* lines 566-569: sharpe_ratio is the literal 0 when np.std(returns) is 0, and
\* (np.mean(returns) / np.std(returns)) * np.sqrt(252) otherwise, which is nan
\* when a return is nan or inf. The value of the ratio is not modelled; "ratio"
\* stands for every outcome of returns that are not all 0 (for equal non-zero
\* returns the rounding of the mean decides whether the deviation is 0).
sharpe_ratio ==
    IF \E i \in 1..Len(returns) : returns[i].den = 0 THEN "nan"
    ELSE IF ReturnsAllZero THEN "zero"
    ELSE "ratio"

\* line 572: cumulative = np.maximum.accumulate(equity_curve)
RECURSIVE cumulative(_)
cumulative(i) ==
    IF i = 1 THEN metrics_curve[1]
    ELSE Max2(cumulative(i - 1), metrics_curve[i])

\* the point of the curve where drawdown = (equity_curve - cumulative) /
\* cumulative is least, for a positive cumulative maximum
WorstDrawdownAt ==
    CHOOSE k \in 1..Len(metrics_curve) :
        \A j \in 1..Len(metrics_curve) :
            RatioLeq(cumulative(j) - metrics_curve[j], cumulative(j),
                     cumulative(k) - metrics_curve[k], cumulative(k))

\* the drawdown measured from the first equity value, not the running maximum
max_drawdown_FromStart ==
    IF \E i \in 1..Len(metrics_curve) : cumulative(i) <= 0
    THEN [num |-> 0, den |-> 0, times |-> 100]
    ELSE LET k == CHOOSE k \in 1..Len(metrics_curve) :
                      \A j \in 1..Len(metrics_curve) :
                          metrics_curve[k] <= metrics_curve[j]
         IN  [num |-> metrics_curve[k] - metrics_curve[1],
              den |-> metrics_curve[1], times |-> 100]

\* lines 572-574: max_drawdown = np.min(drawdown) * 100, the percentage
\* num / den * times; with a cumulative maximum of 0 the division gives nan
\* (den = 0)
max_drawdown ==
    IF \E i \in 1..Len(metrics_curve) : cumulative(i) <= 0
    THEN [num |-> 0, den |-> 0, times |-> 100]
    ELSE [num |-> metrics_curve[WorstDrawdownAt] - cumulative(WorstDrawdownAt),
          den |-> cumulative(WorstDrawdownAt), times |-> 100]

\* line 591: total_costs = total_commission + total_slippage
total_costs == total_commission + total_slippage

\* line 592: costs_pct = (total_costs / initial_capital) * 100 if
\* initial_capital > 0 else 0, as a fraction (initial_capital is a whole
\* multiple of 100 money units)
costs_pct ==
    IF cfg.initial_capital > 0
    THEN Frac(total_costs, cfg.initial_capital \div 100)
    ELSE Frac(0, 1)

IsWin(t) == t.profit

IsLoss(t) == ~t.profit

RECURSIVE SumPnl(_)
SumPnl(h) == IF h = <<>> THEN 0 ELSE h[1].pnl + SumPnl(Tail(h))

\* the flag set whenever use_kelly is
kelly_used_AnyHistory == cfg.use_kelly

\* line 606: 'kelly_used': use_kelly and len(trade_history) >= 10
kelly_used == cfg.use_kelly /\ Len(trade_history) >= 10

\* lines 594-607: kelly_stats.  The averages are the fractions sum / count,
\* avg_loss the absolute value of the losses' mean
kelly_stats ==
    LET wins   == SelectSeq(trade_history, IsWin)
        losses == SelectSeq(trade_history, IsLoss)
    IN  [total_completed_trades |-> Len(trade_history),
         winning_trades |-> Len(wins),
         losing_trades |-> Len(losses),
         win_rate |-> IF Len(trade_history) > 0
                      THEN Frac(Len(wins), Len(trade_history)) ELSE Frac(0, 1),
         avg_win |-> IF Len(wins) > 0 THEN Frac(SumPnl(wins), Len(wins))
                     ELSE Frac(0, 1),
         avg_loss |-> IF Len(losses) > 0
                      THEN Frac(Abs(SumPnl(losses)), Len(losses)) ELSE Frac(0, 1),
         kelly_used |-> kelly_used]

\* the rejections counted among the trades
total_trades_WithRejected == Len(trades) + Len(rejected_trades)

\* lines 612 and 627: 'total_trades': len(trades)
total_trades == Len(trades)

\* lines 609-639: what run_backtest returns, as far as it is modelled here
Results ==
    [equity_curve |-> equity_curve, trades |-> trades,
     rejected_trades |-> Len(rejected_trades), win_rate |-> win_rate,
     total_commission |-> total_commission, total_slippage |-> total_slippage,
     stop_losses_triggered |-> stop_losses_triggered,
     total_completed_trades |-> Len(trade_history)]

\* ------------------------------------------- the Redis-backed services
\* time.time() when the services are constructed, in epoch seconds
StartTimes == {1700000000}

\* the gunicorn workers that call check_rate_limit for one bucket
Workers == {"w1", "w2"}

\* a worker that is in no check_rate_limit call
WorkerIdle ==
    [pc |-> "idle", calls |-> 0, current_time |-> 0, current_tokens |-> 0,
     allowed |-> FALSE]

\* the services as constructed on an empty Redis: no request, no key of the
\* bucket (an absent key is the empty sequence, a stored value <<v>>)
ServicesInit ==
    /\ now \in StartTimes
    /\ request = EmptyDict
    /\ queue_key = EmptyDict
    /\ processing_key = {}
    /\ completed_key = {}
    /\ failed_key = {}
    /\ tokens_key = <<>>
    /\ timestamp_key = <<>>
    /\ worker = [w \in Workers |-> WorkerIdle]
    /\ admitted = 0

\* lines 227-250: the state run_backtest starts from
RunInit(c) ==
    /\ cfg = c
    /\ pc = "loop"
    /\ idx = 0
    /\ row = [close |-> 0, signal |-> "HOLD"]
    /\ cash = c.initial_capital
    /\ positions = EmptyDict
    /\ position_values = EmptyDict
    /\ entry_prices = EmptyDict
    /\ stop_loss_prices = EmptyDict
    /\ equity_curve = <<>>
    /\ trades = <<>>
    /\ rejected_trades = <<>>
    /\ trade_history = <<>>
    /\ total_commission = 0
    /\ total_slippage = 0
    /\ stop_losses_triggered = 0
    /\ kelly_sizings = 0

\* ------------------------------------- calculate_position_size on its own
\* the RiskManager of such a call: the defaults of __init__ but for the cap
SizingManager ==
    RiskManager(DefaultCommission, DefaultSlippage, sz.max_position_pct,
                DefaultMaxRiskPerTrade, DefaultMinPositionValue,
                DefaultMaxLeverage)

SizingCall(capital, price, slpct, mpp, kelly) ==
    [called |-> FALSE, shares |-> 0, capital |-> capital, price |-> price,
     stop_loss_pct |-> slpct, max_position_pct |-> mpp, use_kelly |-> kelly]

SizingIdle == SizingCall(0, 0, 0, DefaultMaxPositionPct, FALSE)

\* rm.calculate_position_size(capital, price, stop_loss_pct[, use_kelly=...])
CallSizing ==
    /\ ~sz.called
    /\ sz' = [sz EXCEPT !.called = TRUE,
                        !.shares = calculate_position_size(SizingManager,
                                       sz.capital, sz.price, sz.stop_loss_pct,
                                       NoStats, sz.use_kelly)]
    /\ UNCHANGED <<runVars, serviceVars>>

\* rm.calculate_position_size(capital, price, stop_loss_pct, win_rate,
\* avg_win, avg_loss, use_kelly=True)
KellyCall(capital, price, slpct, mpp, stats) ==
    [called |-> FALSE, raised |-> FALSE, shares |-> 0, kelly |-> Frac(0, 1),
     capital |-> capital, price |-> price, stop_loss_pct |-> slpct,
     max_position_pct |-> mpp, use_kelly |-> TRUE, stats |-> stats]

\* the call either raises at line 182 or returns a share count; kelly is the
\* kelly_fraction that lines 176-185 computed
CallKellySizing ==
    /\ ~sz.called
    /\ sz' = IF calculate_position_size_raises(sz.capital, sz.price,
                     sz.stop_loss_pct, sz.stats, sz.use_kelly)
             THEN [sz EXCEPT !.called = TRUE, !.raised = TRUE]
             ELSE [sz EXCEPT !.called = TRUE,
                             !.shares = calculate_position_size(SizingManager,
                                            sz.capital, sz.price,
                                            sz.stop_loss_pct, sz.stats,
                                            sz.use_kelly),
                             !.kelly = kelly_fraction(SizingManager, sz.stats)]
    /\ UNCHANGED <<runVars, serviceVars>>

\* rm.validate_trade(portfolio, ticker, quantity, price, side) on a portfolio
\* holding `held` shares of the ticker and `other` in another ticker
ValidateCall(c, held, other, quantity, price, side, mpp) ==
    [called |-> FALSE, ok |-> FALSE, reason |-> "",
     cash |-> c,
     positions |-> IF held > 0 THEN Put(EmptyDict, Ticker, held) ELSE EmptyDict,
     position_values |->
         [t \in (IF held > 0 THEN {Ticker} ELSE {})
                    \cup (IF other > 0 THEN {"OTHER"} ELSE {}) |->
             IF t = Ticker THEN held * 10000 * CostScale ELSE other],
     quantity |-> quantity, price |-> price, side |-> side,
     max_position_pct |-> mpp]

\* the call returns (is_valid, reason) and does not touch the portfolio
CallValidate ==
    /\ ~sz.called
    /\ LET result == validate_trade(SizingManager, sz.cash, sz.positions,
                          sz.position_values, Ticker, sz.quantity, sz.price,
                          sz.side)
       IN  sz' = [sz EXCEPT !.called = TRUE, !.ok = result.ok,
                            !.reason = result.reason]
    /\ UNCHANGED <<runVars, serviceVars>>

\* rm.calculate_position_size(capital, price, stop_loss_pct, win_rate,
\* avg_win, avg_loss, use_kelly) with the statistics given or left at None
GuardCall(capital, price, slpct, stats, kelly) ==
    [called |-> FALSE, raised |-> FALSE, shares |-> 0,
     capital |-> capital, price |-> price, stop_loss_pct |-> slpct,
     max_position_pct |-> DefaultMaxPositionPct, use_kelly |-> kelly,
     stats |-> stats]

\* the call either raises at line 182 or returns a share count
CallGuardedSizing ==
    /\ ~sz.called
    /\ sz' = IF calculate_position_size_raises(sz.capital, sz.price,
                     sz.stop_loss_pct, sz.stats, sz.use_kelly)
             THEN [sz EXCEPT !.called = TRUE, !.raised = TRUE]
             ELSE [sz EXCEPT !.called = TRUE,
                             !.shares = calculate_position_size(SizingManager,
                                            sz.capital, sz.price,
                                            sz.stop_loss_pct, sz.stats,
                                            sz.use_kelly)]
    /\ UNCHANGED <<runVars, serviceVars>>

\* rm.apply_transaction_costs(price, quantity, side) on a manager with the
\* given rates
CostsCall(price, quantity, side, rates) ==
    [called |-> FALSE, costs |-> TransactionCosts(0, 0, 0, 0),
     price |-> price, quantity |-> quantity, side |-> side,
     commission |-> rates[1], slippage |-> rates[2]]

\* the call returns a TransactionCosts and assigns no field of the manager
CallCosts ==
    /\ ~sz.called
    /\ sz' = [sz EXCEPT !.called = TRUE,
                        !.costs = apply_transaction_costs(
                                      RiskManager(sz.commission, sz.slippage,
                                          DefaultMaxPositionPct,
                                          DefaultMaxRiskPerTrade,
                                          DefaultMinPositionValue,
                                          DefaultMaxLeverage),
                                      sz.price, sz.quantity, sz.side)]
    /\ UNCHANGED <<runVars, serviceVars>>

Init ==
    /\ ServicesInit
    /\ \E c \in Configs : RunInit(c)
    /\ sz = SizingIdle

SizingInit ==
    /\ ServicesInit
    /\ RunInit(Cfg(500000, TRUE, TRUE, 5, 2, 1, 95))
    /\ \E capital \in SizingCapitals, price \in SizingPrices,
          slpct \in SizingStopLossPcts, mpp \in SizingMaxPositionPcts,
          kelly \in BOOLEAN :
            sz = SizingCall(capital, price, slpct, mpp, kelly)

SizingNext == CallSizing

GuardInit ==
    /\ ServicesInit
    /\ RunInit(Cfg(500000, TRUE, TRUE, 5, 2, 1, 95))
    /\ \E capital \in GuardCapitals, price \in GuardPrices,
          slpct \in GuardStopLossPcts, stats \in GuardStats,
          kelly \in BOOLEAN :
            sz = GuardCall(capital, price, slpct, stats, kelly)

GuardNext == CallGuardedSizing

SpecGuard == GuardInit /\ [][GuardNext]_vars

CostsInit ==
    /\ ServicesInit
    /\ RunInit(Cfg(500000, TRUE, TRUE, 5, 2, 1, 95))
    /\ \E price \in CostsPrices, quantity \in CostsQuantities,
          side \in CostsSides, rates \in CostsRates :
            sz = CostsCall(price, quantity, side, rates)

CostsNext == CallCosts

SpecCosts == CostsInit /\ [][CostsNext]_vars

SpecSizing == SizingInit /\ [][SizingNext]_vars

ValidateInit ==
    /\ ServicesInit
    /\ RunInit(Cfg(500000, TRUE, TRUE, 5, 2, 1, 95))
    /\ \E c \in ValidateCash, held \in ValidateHeld,
          other \in ValidateOtherValue, quantity \in ValidateQuantities,
          price \in ValidatePrices, side \in {"BUY", "SELL"},
          mpp \in SizingMaxPositionPcts :
            sz = ValidateCall(c, held, other, quantity, price, side, mpp)

ValidateNext == CallValidate

SpecValidate == ValidateInit /\ [][ValidateNext]_vars

KellyInit ==
    /\ ServicesInit
    /\ RunInit(Cfg(500000, TRUE, TRUE, 5, 2, 1, 95))
    /\ \E capital \in KellyCapitals, mpp \in SizingMaxPositionPcts,
          wins \in 0..KellyTrades, avg_win \in KellyAmounts,
          avg_loss \in KellyAmounts :
            sz = KellyCall(capital, 10000, 5, mpp,
                           Stats(wins, KellyTrades, avg_win, avg_loss))

KellyNext == CallKellySizing

SpecKelly == KellyInit /\ [][KellyNext]_vars

Next ==
    \/ \E close \in Closes, signal \in Signals :
           idx < MaxSteps /\ StopLossExit(close, signal)
    \/ \E close \in Closes, signal \in Signals :
           idx < MaxSteps /\ BuyRejected(close, signal)
    \/ \E close \in Closes, signal \in Signals :
           idx < MaxSteps /\ BuyExecuted(close, signal)
    \/ \E close \in Closes, signal \in Signals :
           idx < MaxSteps /\ BuySkipped(close, signal)
    \/ \E close \in Closes, signal \in Signals :
           idx < MaxSteps /\ SellRejected(close, signal)
    \/ \E close \in Closes, signal \in Signals :
           idx < MaxSteps /\ SellExecuted(close, signal)
    \/ \E close \in Closes, signal \in Signals :
           idx < MaxSteps /\ NoAction(close, signal)
    \/ Finish

Spec == Init /\ [][Next]_vars

\* the long runs: every row of theirs is a Buy that executes, a Sell that
\* executes or a stop-loss exit
LongInit ==
    /\ ServicesInit
    /\ \E c \in LongConfigs : RunInit(c)
    /\ sz = SizingIdle

LongNext ==
    \/ \E close \in LongCloses(idx) :
           idx < MaxLongSteps /\ StopLossExit(close, LongSignal(idx))
    \/ \E close \in LongCloses(idx) :
           idx < MaxLongSteps /\ BuyExecuted(close, LongSignal(idx))
    \/ \E close \in LongCloses(idx) :
           idx < MaxLongSteps /\ SellExecuted(close, LongSignal(idx))
    \/ Finish

SpecLong == LongInit /\ [][LongNext]_vars

\* ------------------------------------------ run_backtest called twice
\* two calls of run_backtest in one process with the same data and arguments:
\* which call is running, the data, and what the first call returned
Rerun(data) == [run |-> 1, data |-> data, first |-> <<>>]

\* a second call that goes on with the portfolio of the first
SecondRun_KeepsPortfolio ==
    /\ pc = "done"
    /\ sz.run = 1
    /\ sz' = [sz EXCEPT !.run = 2, !.first = <<Results>>]
    /\ UNCHANGED serviceVars
    /\ pc' = "loop"
    /\ idx' = 0
    /\ row' = [close |-> 0, signal |-> "HOLD"]
    /\ entry_prices' = EmptyDict
    /\ stop_loss_prices' = EmptyDict
    /\ equity_curve' = <<>>
    /\ trades' = <<>>
    /\ rejected_trades' = <<>>
    /\ trade_history' = <<>>
    /\ total_commission' = 0
    /\ total_slippage' = 0
    /\ stop_losses_triggered' = 0
    /\ kelly_sizings' = 0
    /\ UNCHANGED <<cfg, cash, positions, position_values>>

\* the first call has returned and the second starts: lines 227-250 build a
\* new RiskManager, a new Portfolio and new lists and dicts for it
SecondRun ==
    /\ pc = "done"
    /\ sz.run = 1
    /\ sz' = [sz EXCEPT !.run = 2, !.first = <<Results>>]
    /\ UNCHANGED serviceVars
    /\ pc' = "loop"
    /\ idx' = 0
    /\ row' = [close |-> 0, signal |-> "HOLD"]
    /\ cash' = cfg.initial_capital
    /\ positions' = EmptyDict
    /\ position_values' = EmptyDict
    /\ entry_prices' = EmptyDict
    /\ stop_loss_prices' = EmptyDict
    /\ equity_curve' = <<>>
    /\ trades' = <<>>
    /\ rejected_trades' = <<>>
    /\ trade_history' = <<>>
    /\ total_commission' = 0
    /\ total_slippage' = 0
    /\ stop_losses_triggered' = 0
    /\ kelly_sizings' = 0
    /\ UNCHANGED cfg

RerunInit ==
    /\ ServicesInit
    /\ \E c \in RerunConfigs : RunInit(c)
    /\ \E data \in RerunData : sz = Rerun(data)

\* the loop takes the rows of data in order and ends after the last
DataNext ==
    \/ idx < Len(sz.data)
          /\ StopLossExit(sz.data[idx + 1].close, sz.data[idx + 1].signal)
    \/ idx < Len(sz.data)
          /\ BuyRejected(sz.data[idx + 1].close, sz.data[idx + 1].signal)
    \/ idx < Len(sz.data)
          /\ BuyExecuted(sz.data[idx + 1].close, sz.data[idx + 1].signal)
    \/ idx < Len(sz.data)
          /\ BuySkipped(sz.data[idx + 1].close, sz.data[idx + 1].signal)
    \/ idx < Len(sz.data)
          /\ SellRejected(sz.data[idx + 1].close, sz.data[idx + 1].signal)
    \/ idx < Len(sz.data)
          /\ SellExecuted(sz.data[idx + 1].close, sz.data[idx + 1].signal)
    \/ idx < Len(sz.data)
          /\ NoAction(sz.data[idx + 1].close, sz.data[idx + 1].signal)
    \/ idx = Len(sz.data) /\ Finish

RerunNext ==
    \/ DataNext
    \/ SecondRun

SpecRerun == RerunInit /\ [][RerunNext]_vars

\* one call of run_backtest over its data.  The interpreter keeps executing
\* the call: a step that can be taken is taken
FairRun == RerunInit /\ [][DataNext]_vars /\ WF_vars(DataNext)

\* ================================================================== claims
\* a row was processed by this step
StepTaken == idx' = idx + 1

\* the step appended an exit of the given kind to the trade log
Exited(kind) ==
    /\ Len(trades') = Len(trades) + 1
    /\ trades'[Len(trades')].signal = kind
    /\ trades'[Len(trades')].date = idx'

\* the step appended a RejectedTrade for its row
RejectionRecorded ==
    /\ Len(rejected_trades') = Len(rejected_trades) + 1
    /\ rejected_trades'[Len(rejected_trades')].date = idx'

\* C1: the equity curve has one value per processed row, and the result of an
\* empty input is the curve [initial_capital]
C1_EquityPerStep ==
    /\ pc = "loop" => Len(equity_curve) = idx
    /\ (pc = "done" /\ idx > 0) => Len(equity_curve) = idx
    /\ (pc = "done" /\ idx = 0) => equity_curve = <<cfg.initial_capital>>

C1_Witness ==
    /\ pc = "done"
    /\ idx = 3
    /\ stop_losses_triggered = 1
    /\ Len(rejected_trades) = 1
    /\ Len(trades) = 2

\* C2: on a step whose close triggers the stop-loss the position is closed by
\* a STOP_LOSS trade at that close, the round trip joins the history, the
\* signal of the row (BUY included) is not acted on, so the portfolio is flat,
\* and the equity recorded is the value after the exit
C2_StopLossPreempts ==
    [][(StepTaken /\ StopTriggered(row'.close)) =>
          /\ Exited("STOP_LOSS")
          /\ trades'[Len(trades')].price = row'.close
          /\ trades'[Len(trades')].shares = positions[Ticker]
          /\ Len(trade_history') = Len(trade_history) + 1
          /\ trade_history'[Len(trade_history')].pnl = trades'[Len(trades')].pnl
          /\ positions' = EmptyDict
          /\ position_values' = EmptyDict
          /\ stop_loss_prices' = EmptyDict
          /\ rejected_trades' = rejected_trades
          /\ cash' = cash + ExitProceeds(row'.close)
          /\ equity_curve' = Append(equity_curve, cash')]_vars

C2_Witness ==
    /\ row.signal = "BUY"
    /\ Len(trades) = 2
    /\ trades[2].signal = "STOP_LOSS"
    /\ trades[2].date = idx
    /\ positions = EmptyDict

\* C3: with enable_stop_loss on and a position open, a step is a STOP_LOSS
\* exit exactly when its close is at or below the stored stop-loss price (for
\* an entry at 100.00 the stop is 95.00: a close of 95.00 exits, 95.01 does
\* not); with enable_stop_loss off no step is a STOP_LOSS exit
C3_StopLossBoundary ==
    [][StepTaken =>
          /\ (cfg.enable_stop_loss /\ Has(positions, Ticker)) =>
                /\ Has(stop_loss_prices, Ticker)
                /\ Exited("STOP_LOSS")
                     <=> (row'.close * PctScale <= stop_loss_prices[Ticker])
                /\ (entry_prices[Ticker] = 10000 /\ row'.close = 9500)
                     => Exited("STOP_LOSS")
                /\ (entry_prices[Ticker] = 10000 /\ row'.close = 9501)
                     => ~Exited("STOP_LOSS")
          /\ ~cfg.enable_stop_loss => ~Exited("STOP_LOSS")]_vars

C3_Witness ==
    /\ cfg.enable_stop_loss
    /\ Len(trades) = 2
    /\ trades[1].price = 10000
    /\ trades[2].signal = "STOP_LOSS"
    /\ trades[2].price = 9500
    /\ row.close = 9500

\* C4: a BUY while flat whose sized order costs more than the cash (shares x
\* effective price + commission + slippage > cash) leaves cash and positions
\* unchanged and records a RejectedTrade for the step
C4_UnaffordableBuyRejected ==
    [][(/\ StepTaken
        /\ row'.signal = "BUY"
        /\ ~Has(positions, Ticker)
        /\ BuyShares(row'.close) > 0
        /\ BuyTotalCost(row'.close) > cash) =>
          /\ cash' = cash
          /\ positions' = positions
          /\ RejectionRecorded]_vars

\* C5: a BUY while flat that position sizing sizes at 0 shares records a
\* RejectedTrade and leaves cash, positions and the trade log unchanged
C5_ZeroSharesRejected ==
    [][(/\ StepTaken
        /\ row'.signal = "BUY"
        /\ ~Has(positions, Ticker)
        /\ cfg.enable_risk_management
        /\ BuyShares(row'.close) = 0) =>
          /\ cash' = cash
          /\ positions' = positions
          /\ trades' = trades
          /\ RejectionRecorded]_vars

\* C6: the pnl of a Sell that closes a Buy of qty shares at pb, at price ps, is
\* qty*(ps*(1-s) - pb*(1+s)) - c*qty*(pb+ps)
C6_RoundTripPnl ==
    \A i \in 2..Len(trades) :
        trades[i].signal = "SELL" =>
            LET qty == trades[i].shares
                pb  == trades[i-1].price
                ps  == trades[i].price
            IN  /\ trades[i-1].signal = "BUY"
                /\ trades[i-1].shares = qty
                /\ trades[i].pnl =
                       qty * (ps * (CostScale - cfg.slippage)
                              - pb * (CostScale + cfg.slippage))
                       - cfg.commission * qty * (pb + ps)

\* the state of the portfolio that C7 speaks of
PortfolioSound ==
    /\ cash >= 0
    /\ total_value(cash, position_values) >= 0
    /\ \A t \in DOMAIN positions : positions[t] >= 0
    /\ \A t \in DOMAIN position_values : position_values[t] >= 0
    /\ (pc = "loop" /\ idx > 0) =>
           equity_curve[idx] = cash + SumValues(position_values)

\* C7 as stated: for every initial_capital >= 0, positive prices and
\* non-negative rates the portfolio is sound after every step
C7_Original == PortfolioSound

\* C7 amended: the same, for rates with commission + 2 * slippage <= 1
C7_PortfolioSound ==
    (cfg.commission + 2 * cfg.slippage <= CostScale) => PortfolioSound

C7_Witness ==
    /\ cfg.commission + 2 * cfg.slippage <= CostScale
    /\ Len(trades) = 3
    /\ trades[2].signal = "STOP_LOSS"
    /\ Has(positions, Ticker)
    /\ cash < cfg.initial_capital

C9_DefaultSizingIs40 ==
    (/\ sz.called
     /\ sz.max_position_pct = DefaultMaxPositionPct
     /\ sz.capital = 10000 * MoneyScale
     /\ sz.price = 10000
     /\ sz.stop_loss_pct = 5) => sz.shares = 40

C11_KellyFractionInRange ==
    sz.called =>
        /\ ~sz.raised
        /\ FracLeq(Frac(0, 1), sz.kelly)
        /\ FracLeq(sz.kelly, Frac(sz.max_position_pct, PctScale))
        /\ (sz.stats.avg_loss # 0
             /\ sz.stats.wins * sz.stats.avg_win
                    <= (sz.stats.trades - sz.stats.wins) * sz.stats.avg_loss)
            => sz.kelly.num = 0

\* ------------------------------------------------------------------- C12
\* C12: with use_kelly = true and win_rate, avg_win and avg_loss supplied,
\* calculate_position_size returns floor(capital * kelly / price) shares,
\* kelly being the Kelly fraction clamp(0.5 * (p*b - q) / b, 0,
\* max_position_pct); in particular it returns 0 shares when that fraction
\* is 0.  The code returns the fixed-fractional share count instead.
C12_KellySharesFromFraction ==
    (sz.called /\ ~sz.raised) =>
        sz.shares = MulDivFloor(sz.capital, sz.kelly.num, sz.kelly.den)
                        \div (sz.price * CostScale)

\* ------------------------------------------------------------------- C13
\* the step appended a Buy to the trade log
Bought ==
    /\ Len(trades') = Len(trades) + 1
    /\ trades'[Len(trades')].signal = "BUY"
    /\ trades'[Len(trades')].date = idx'

\* every row offered to a long run takes one of the branches of LongNext
LongRowsCovered ==
    (pc = "loop" /\ idx < MaxLongSteps) =>
        \A close \in LongCloses(idx) :
            Path(close, LongSignal(idx)) \in {"stop_loss", "buy", "sell"}

IsExit(t) == t.signal \in {"SELL", "STOP_LOSS"}

\* C14: the win count behind the reported win rate pairs the i-th executed Buy
\* with the i-th executed exit, the exits being the Sells and the stop-loss
\* exits, over min(#buys, #exits) pairs, a pair winning iff the exit's proceeds
\* exceed the Buy's cost.  The code pairs the Buys with the Sells only.
C14_WinRatePairsExits ==
    pc = "done" =>
        LET buys  == SelectSeq(trades, IsBuy)
            exits == SelectSeq(trades, IsExit)
        IN  profitable_trades =
                Cardinality({i \in 1..Min2(Len(buys), Len(exits)) :
                                exits[i].proceeds > buys[i].cost})

\* ------------------------------------------------------------------- C15
\* C15: validate_trade returns (True, .) exactly when none of these holds:
\* quantity <= 0; price <= 0; quantity * price < min_position_value; for a
\* Buy, quantity * price + commission + slippage > cash, or (value already
\* held in the ticker + quantity * price) / total_value > max_position_pct,
\* or (invested_value + quantity * price) / total_value > max_leverage; for a
\* Sell, quantity > shares held.  Otherwise it returns (False, reason).
C15_ValidateTrade ==
    sz.called =>
        LET value    == sz.quantity * sz.price * CostScale
            total    == sz.cash + SumValues(sz.position_values)
            rejected ==
                \/ sz.quantity <= 0
                \/ sz.price <= 0
                \/ value < DefaultMinPositionValue
                \/ /\ sz.side = "BUY"
                   /\ \/ value + sz.quantity * sz.price * DefaultCommission
                               + sz.quantity * sz.price * DefaultSlippage > sz.cash
                      \/ Get(sz.position_values, Ticker, 0) + value
                            > MulDivFloor(total, sz.max_position_pct, PctScale)
                      \/ SumValues(sz.position_values) + value
                            > MulDivFloor(total, DefaultMaxLeverage, PctScale)
                \/ /\ sz.side = "SELL"
                   /\ sz.quantity > Get(sz.positions, Ticker, 0)
        IN  /\ sz.ok <=> ~rejected
            /\ ~sz.ok => sz.reason \notin {"", "Trade validated"}

\* a Buy adding to a held position that is accepted, the portfolio also holding
\* another ticker
C15_Witness ==
    /\ sz.called
    /\ sz.ok
    /\ sz.side = "BUY"
    /\ Has(sz.positions, Ticker)
    /\ Has(sz.position_values, "OTHER")

\* ------------------------------------------------------------------- C16
\* the row of this step reaches validate_trade, which rejects the trade
ValidationRejects ==
    /\ StepTaken
    /\ cfg.enable_risk_management
    /\ ~StopTriggered(row'.close)
    /\ \/ /\ row'.signal = "BUY"
          /\ ~Has(positions, Ticker)
          /\ BuyShares(row'.close) > 0
          /\ ~BuyValidation(row'.close).ok
       \/ /\ row'.signal = "SELL"
          /\ Has(positions, Ticker)
          /\ positions[Ticker] > 0
          /\ ~SellValidation(row'.close).ok

\* the step leaves everything but position_values, the rejected list and the
\* equity curve alone, and appends one RejectedTrade and one equity value
RejectionFrame ==
    /\ UNCHANGED <<cash, positions, entry_prices, stop_loss_prices, trades,
                   trade_history, total_commission, total_slippage,
                   stop_losses_triggered>>
    /\ Len(rejected_trades') = Len(rejected_trades) + 1
    /\ SubSeq(rejected_trades', 1, Len(rejected_trades)) = rejected_trades
    /\ rejected_trades'[Len(rejected_trades')].signal = row'.signal
    /\ Len(equity_curve') = Len(equity_curve) + 1
    /\ SubSeq(equity_curve', 1, Len(equity_curve)) = equity_curve
    /\ equity_curve'[Len(equity_curve')] = cash + SumValues(position_values')

\* the positions marked at the close of the row just processed
Remarked ==
    /\ DOMAIN position_values' = DOMAIN positions
    /\ \A t \in DOMAIN positions :
           position_values'[t] = positions[t] * row'.close * CostScale

C17_NoOpSteps ==
    [][(/\ StepTaken
        /\ ~StopTriggered(row'.close)
        /\ \/ row'.signal = "HOLD"
           \/ row'.signal = "BUY" /\ Has(positions, Ticker)
           \/ row'.signal = "SELL" /\ ~Has(positions, Ticker))
       => /\ UNCHANGED <<cash, positions, entry_prices, stop_loss_prices,
                         trades, rejected_trades, trade_history>>
          /\ Remarked
          /\ Len(equity_curve') = Len(equity_curve) + 1
          /\ SubSeq(equity_curve', 1, Len(equity_curve)) = equity_curve
          /\ equity_curve'[Len(equity_curve')] = cash + SumValues(position_values')
      ]_vars

\* a BUY row met while long, at a close other than the entry price
C17_Witness ==
    /\ row.signal = "BUY"
    /\ Has(positions, Ticker)
    /\ Len(trades) = 1
    /\ trades[1].date < idx
    /\ trades[1].price # row.close
    /\ positions[Ticker] = trades[1].shares
    /\ position_values[Ticker] = positions[Ticker] * row.close * CostScale
    /\ Len(equity_curve) = idx

\* ------------------------------------------------------------------- C18
\* C18: FLAT -> LONG -> FLAT.  In every reachable state at most one position
\* is open; the trade log alternates Buy, exit (Sell or stop-loss), Buy, exit,
\* ... starting with a Buy; and the number of Buys minus the number of exits
\* is 1 exactly when a position is open and 0 otherwise.
C18_FlatLongFlat ==
    /\ DOMAIN positions \subseteq {Ticker}
    /\ \A i \in 1..Len(trades) :
           IF i % 2 = 1 THEN IsBuy(trades[i]) ELSE IsExit(trades[i])
    /\ Len(SelectSeq(trades, IsBuy)) - Len(SelectSeq(trades, IsExit))
           = IF Has(positions, Ticker) THEN 1 ELSE 0

\* two round trips, one closed by the stop-loss and one by a Sell
C18_Witness ==
    /\ Len(trades) = 4
    /\ \E i, j \in {2, 4} : trades[i].signal = "STOP_LOSS" /\ trades[j].signal = "SELL"
    /\ ~Has(positions, Ticker)

RiskParametersInRange ==
    /\ 0 < risk_mgr.max_position_pct /\ risk_mgr.max_position_pct <= PctScale
    /\ 0 < cfg.stop_loss_pct /\ cfg.stop_loss_pct <= PctScale
    /\ risk_mgr.max_leverage >= PctScale

\* C20: a run started with an out-of-range risk parameter fails with a
\* configuration error before the first row is processed and produces no
\* result: no row is taken, no equity value and no trade recorded, and the
\* run does not complete.  The code checks none of the parameters.
C20_OutOfRangeRejected ==
    ~RiskParametersInRange =>
        /\ idx = 0
        /\ pc = "loop"
        /\ equity_curve = <<>>
        /\ trades = <<>>

\* ------------------------------------------------------------------- C21
\* C21: every run terminates after processing each row of its input exactly
\* once, in order: each step takes the next row, a run in its loop always
\* reaches the metrics and returns, having processed all the rows, and a
\* rejected trade neither halts the run nor keeps later rows from being taken.
C21_RunTerminates ==
    /\ [][StepTaken => (idx < Len(sz.data) /\ row' = sz.data[idx + 1])]_vars
    /\ [](pc = "done" => (idx = Len(sz.data) /\ Len(equity_curve) >= idx))
    /\ (pc = "loop") ~> (pc = "done")

\* a completed run whose second row was rejected and whose third row traded
C21_Witness ==
    /\ pc = "done"
    /\ idx = 3
    /\ Len(rejected_trades) = 1
    /\ rejected_trades[1].date = 2
    /\ Len(trades) = 2
    /\ trades[2].date = 3

\* ------------------------------------------------------------------- C22
\* C22: when a Buy executes with enable_stop_loss on, the stop-loss price
\* stored for the position, and reported on the Buy's trade record, is
\* entry_price * (1 - stop_loss_pct), stop_loss_pct being the value configured
\* for the run.  The code uses 5% whatever the run configures.
C22_StopLossFromConfig ==
    cfg.enable_stop_loss =>
        /\ \A i \in 1..Len(trades) :
               IsBuy(trades[i]) =>
                   trades[i].stop_loss
                       = trades[i].price * (PctScale - cfg.stop_loss_pct)
        /\ Has(positions, Ticker) =>
               /\ Has(stop_loss_prices, Ticker)
               /\ stop_loss_prices[Ticker]
                      = entry_prices[Ticker] * (PctScale - cfg.stop_loss_pct)

\* ------------------------------------------------------------------- C23
IsWinningExit(t) == IsExit(t) /\ t.pnl > 0

RECURSIVE SumCommission(_)
SumCommission(ts) ==
    IF ts = <<>> THEN 0 ELSE ts[1].commission + SumCommission(Tail(ts))

RECURSIVE SumSlippage(_)
SumSlippage(ts) ==
    IF ts = <<>> THEN 0 ELSE ts[1].slippage + SumSlippage(Tail(ts))

\* C24: total_commission is the sum of the commission fields of the executed
\* trades in the log (Buy, Sell and stop-loss) and total_slippage the sum of
\* their slippage fields, rejected and skipped trades adding nothing;
\* total_costs = total_commission + total_slippage and, for a positive
\* initial_capital, costs_pct = total_costs / initial_capital * 100.
C24_CostTotals ==
    /\ total_commission = SumCommission(trades)
    /\ total_slippage = SumSlippage(trades)
    /\ total_costs = SumCommission(trades) + SumSlippage(trades)
    /\ cfg.initial_capital > 0 =>
           /\ costs_pct.num = SumCommission(trades) + SumSlippage(trades)
           /\ costs_pct.den * 100 = cfg.initial_capital

\* a completed run with a Buy, a rejected Sell and an executed Sell
C24_Witness ==
    /\ pc = "done"
    /\ Len(trades) = 2
    /\ trades[2].signal = "SELL"
    /\ Len(rejected_trades) = 1
    /\ total_commission > 0
    /\ total_slippage > 0
\* C25: a completed run in which no trade executed (every row a HOLD, every
\* Buy rejected, or no rows at all) has an equity curve constant at
\* initial_capital, sharpe_ratio 0, max_drawdown 0, win_rate 0, total_return 0
\* and every Kelly statistic 0.
C25_DegenerateMetrics ==
    (pc = "done" /\ trades = <<>>) =>
        /\ \A i \in 1..Len(metrics_curve) : metrics_curve[i] = cfg.initial_capital
        /\ sharpe_ratio = "zero"
        /\ max_drawdown.den # 0 /\ max_drawdown.num = 0
        /\ total_return.den # 0 /\ total_return.num = 0
        /\ win_rate.den # 0 /\ win_rate.num = 0
        /\ kelly_stats.total_completed_trades = 0
        /\ kelly_stats.winning_trades = 0
        /\ kelly_stats.losing_trades = 0
        /\ kelly_stats.win_rate.num = 0
        /\ kelly_stats.avg_win.num = 0
        /\ kelly_stats.avg_loss.num = 0

\* the same for the runs that start with a positive initial_capital
C25_PositiveCapital ==
    cfg.initial_capital > 0 => C25_DegenerateMetrics

\* a completed run of two rows or more whose only Buy was rejected
C25_Witness ==
    /\ pc = "done"
    /\ trades = <<>>
    /\ idx >= 2
    /\ Len(rejected_trades) >= 1
    /\ cfg.initial_capital > 0
\* the largest of the first i equity values
RunningMax(i) ==
    CHOOSE m \in {metrics_curve[j] : j \in 1..i} :
        \A j \in 1..i : metrics_curve[j] <= m

\* C26: for a completed run whose equity values are all positive, max_drawdown
\* is at most 0, it is the least over i of
\* (equity[i] - running_max[i]) / running_max[i] * 100, and it is 0 exactly
\* when no equity value lies below the running maximum (curves of fewer than
\* two points included).
C26_MaxDrawdown ==
    (pc = "done" /\ \A i \in 1..Len(metrics_curve) : metrics_curve[i] > 0) =>
        /\ max_drawdown.den > 0
        /\ max_drawdown.num <= 0
        /\ max_drawdown.times = 100
        /\ \A i \in 1..Len(metrics_curve) :
               RatioLeq(RunningMax(i) - metrics_curve[i], RunningMax(i),
                        0 - max_drawdown.num, max_drawdown.den)
        /\ \E i \in 1..Len(metrics_curve) :
               /\ max_drawdown.num = metrics_curve[i] - RunningMax(i)
               /\ max_drawdown.den = RunningMax(i)
        /\ (max_drawdown.num = 0) <=>
               (\A i \in 1..Len(metrics_curve) :
                    metrics_curve[i] >= RunningMax(i))

\* a completed run whose equity rose above its first value and then fell: the
\* worst drawdown is measured from a peak later than the start
C26_Witness ==
    /\ pc = "done"
    /\ \A i \in 1..Len(metrics_curve) : metrics_curve[i] > 0
    /\ max_drawdown.num < 0
    /\ max_drawdown.den > metrics_curve[1]
\* C27: apply_transaction_costs(price, quantity, side) returns commission =
\* price * quantity * commission rate, slippage = price * quantity * slippage
\* rate, total_cost = commission + slippage and effective_price =
\* price * (1 + slippage rate) for a BUY and price * (1 - slippage rate) for a
\* SELL (the side in either case); for quantity 0 every cost is 0 and
\* effective_price is the price; the call leaves the manager's rates and the
\* portfolio as they were.
C27_TransactionCosts ==
    /\ [](sz.called =>
          IF sz.quantity = 0
          THEN /\ sz.costs.commission = 0
               /\ sz.costs.slippage = 0
               /\ sz.costs.total_cost = 0
               /\ sz.costs.effective_price = sz.price * CostScale
          ELSE /\ sz.costs.commission = sz.price * sz.quantity * sz.commission
               /\ sz.costs.slippage = sz.price * sz.quantity * sz.slippage
               /\ sz.costs.total_cost = sz.costs.commission + sz.costs.slippage
               /\ sz.side \in {"BUY", "buy"} =>
                      sz.costs.effective_price
                          = sz.price * (CostScale + sz.slippage)
               /\ sz.side \in {"SELL", "sell"} =>
                      sz.costs.effective_price
                          = sz.price * (CostScale - sz.slippage))
    /\ [][/\ sz'.commission = sz.commission
          /\ sz'.slippage = sz.slippage
          /\ UNCHANGED <<runVars, serviceVars>>]_vars

\* a SELL of 47 shares with a slippage rate above 0: the effective price is
\* below the price
C27_Witness ==
    /\ sz.called
    /\ sz.quantity = 47
    /\ sz.side = "SELL"
    /\ sz.slippage > 0
    /\ sz.costs.effective_price < sz.price * CostScale
    /\ sz.costs.total_cost > 0
\* the arguments that lines 165-171 turn away
InvalidSizingInputs ==
    sz.capital <= 0 \/ sz.price <= 0 \/ sz.stop_loss_pct <= 0

\* C28: calculate_position_size returns 0 shares and does not raise whenever
\* capital <= 0, price <= 0 or stop_loss_pct <= 0, with use_kelly off and with
\* use_kelly on and the statistics given.
C28_InvalidInputsGiveZero ==
    (sz.called /\ InvalidSizingInputs) => (~sz.raised /\ sz.shares = 0)

\* a Kelly call with capital 0 and a record of losses only, the statistics
\* on which the Kelly arithmetic would divide by 0
C28_Witness ==
    /\ sz.called
    /\ sz.capital = 0 /\ sz.price > 0 /\ sz.stop_loss_pct > 0
    /\ sz.use_kelly /\ sz.stats.given
    /\ sz.stats.avg_win = 0 /\ sz.stats.avg_loss # 0
    /\ ~sz.raised /\ sz.shares = 0
\* C29: a Kelly sizing call with avg_loss = 0, and one with avg_win = 0 (the
\* win/loss ratio b is 0, as after round trips that were all losses), each
\* returns without raising and with a Kelly fraction of 0.  With avg_win = 0
\* and avg_loss # 0 line 182 divides by b = 0 and the call raises.
C29_KellyDivisionDefaults ==
    (sz.called /\ (sz.stats.avg_loss = 0 \/ sz.stats.avg_win = 0)) =>
        (~sz.raised /\ sz.kelly.num = 0)

\* the half of C29 about avg_loss = 0, which line 176 tests
C29_ZeroAvgLoss ==
    (sz.called /\ sz.stats.avg_loss = 0) => (~sz.raised /\ sz.kelly.num = 0)
\* C30: every equity value is marked at its step's close: the value a step
\* appends to equity_curve is the cash at the end of the step plus the shares
\* held at the end of the step times the step's close (a position opened on
\* the step is valued at that close, one carried over is re-marked to it).
C30_EquityMarkedAtClose ==
    [][StepTaken =>
          /\ Len(equity_curve') = idx'
          /\ equity_curve'[idx'] =
                 cash' + Get(positions', Ticker, 0) * row'.close * CostScale]_vars

\* a position bought on an earlier step and carried to a step with another
\* close: the equity of the later step is the cash plus the shares at that close
C30_Witness ==
    /\ idx >= 2
    /\ Has(positions, Ticker)
    /\ Len(trades) = 1
    /\ trades[1].date < idx
    /\ trades[1].price # row.close
    /\ equity_curve[idx] = cash + positions[Ticker] * row.close * CostScale
    /\ equity_curve[idx] # equity_curve[idx - 1]
\* the pnl fields of the trades of a log, added up
RECURSIVE SumTradePnl(_)
SumTradePnl(ts) ==
    IF ts = <<>> THEN 0 ELSE ts[1].pnl + SumTradePnl(Tail(ts))

\* C31: the pnl recorded on every exit trade (SELL or STOP_LOSS) is the net
\* change in cash over its round trip, the proceeds of the exit minus the cost
\* that the Buy before it debited; so a completed run that ends flat has
\* cash = initial_capital + the sum of the recorded pnl values.  The code
\* subtracts entry price * shares, which leaves out the Buy's commission and
\* slippage.
C31_PnlIsNetCashChange ==
    /\ \A k \in 1..Len(trades) :
           IsExit(trades[k]) =>
               /\ k > 1
               /\ trades[k - 1].signal = "BUY"
               /\ trades[k].pnl = trades[k].proceeds - trades[k - 1].cost
    /\ (pc = "done" /\ ~Has(positions, Ticker)) =>
           cash = cfg.initial_capital + SumTradePnl(trades)

\* what the code records: the proceeds of the exit minus the entry price times
\* the shares, the entry price being the Buy's close with the stop-loss on
PnlAgainstEntryPrice ==
    \A k \in 1..Len(trades) :
        (IsExit(trades[k]) /\ cfg.enable_stop_loss) =>
            /\ k > 1
            /\ trades[k - 1].signal = "BUY"
            /\ trades[k].pnl = trades[k].proceeds
                   - trades[k - 1].price * trades[k].shares * CostScale
\* C32: the pnl of a Sell is measured against the price of the Buy that
\* opened the position, with enable_stop_loss on or off: it is the proceeds
\* minus that price times the shares, so a Sell whose proceeds exceed what the
\* Buy cost records a positive pnl and a winning round trip.  With
\* enable_stop_loss off entry_prices is never set and the pnl is measured
\* against the price of the Sell itself.
C32_SellPnlAgainstBuyPrice ==
    \A k \in 1..Len(trades) :
        trades[k].signal = "SELL" =>
            /\ k > 1
            /\ trades[k - 1].signal = "BUY"
            /\ trades[k].pnl = trades[k].proceeds
                   - trades[k - 1].price * trades[k].shares * CostScale
            /\ trades[k].proceeds > trades[k - 1].cost =>
                   /\ trades[k].pnl > 0
                   /\ \E h \in 1..Len(trade_history) :
                          /\ trade_history[h].pnl = trades[k].pnl
                          /\ trade_history[h].profit

\* the same for the runs with enable_stop_loss on
C32_StopLossOn ==
    cfg.enable_stop_loss => C32_SellPnlAgainstBuyPrice
\* C33: with risk management enabled, a step with a SELL signal taken while
\* long closes the whole position (by the Sell, or by the stop-loss exit when
\* that triggers first): validation never rejects the exit, so no position
\* stays open across a SELL step.  validate_trade rejects a Sell whose value
\* quantity * price has fallen below min_position_value.
C33_SellAlwaysCloses ==
    [][(/\ StepTaken
        /\ cfg.enable_risk_management
        /\ row'.signal = "SELL"
        /\ Has(positions, Ticker))
          => (/\ ~Has(positions', Ticker)
              /\ rejected_trades' = rejected_trades)]_vars
\* C34: with enable_risk_management off, the share count that
\* get_max_shares_affordable(cash, price) returns is affordable at the cost the
\* Buy is executed at, so a step with a BUY signal taken while flat and sized
\* above 0 shares opens a position of that size.  The execution counts the
\* slippage twice (in the effective price and as an amount) and
\* get_max_shares_affordable counts it once.
C34_MaxSharesAffordable ==
    [][(/\ StepTaken
        /\ ~cfg.enable_risk_management
        /\ row'.signal = "BUY"
        /\ ~Has(positions, Ticker)
        /\ get_max_shares_affordable(risk_mgr, cash, row'.close) > 0)
          => (/\ BuyTotalCost(row'.close) <= cash
              /\ Has(positions', Ticker)
              /\ positions'[Ticker] =
                     get_max_shares_affordable(risk_mgr, cash, row'.close))]_vars
\* the trades of the log with the given signal
CountTrades(sig) == Len(SelectSeq(trades, LAMBDA t : t.signal = sig))

\* C35: after any sequence of steps the counters agree with the logs:
\* total_trades is the number of BUY, SELL and STOP_LOSS entries of the trade
\* log (which holds no other entries), stop_losses_triggered the number of
\* STOP_LOSS entries, total_completed_trades of the Kelly statistics the
\* number of SELL and STOP_LOSS entries, and no step with a rejected trade has
\* an entry in the trade log.
C35_CountersAgreeWithLogs ==
    /\ total_trades = CountTrades("BUY") + CountTrades("SELL")
                          + CountTrades("STOP_LOSS")
    /\ stop_losses_triggered = CountTrades("STOP_LOSS")
    /\ kelly_stats.total_completed_trades
           = CountTrades("SELL") + CountTrades("STOP_LOSS")
    /\ Results.total_completed_trades = kelly_stats.total_completed_trades
    /\ \A r \in 1..Len(rejected_trades), k \in 1..Len(trades) :
           rejected_trades[r].date # trades[k].date

\* a completed run with a Buy, a rejected Sell and a stop-loss exit
C35_Witness ==
    /\ pc = "done"
    /\ CountTrades("BUY") >= 1
    /\ CountTrades("STOP_LOSS") >= 1
    /\ Len(rejected_trades) >= 1
    /\ stop_losses_triggered >= 1
\* ------------------------------------------------------- RequestQueue
\* class RequestPriority (higher number = higher priority)
LOW == 1
NORMAL == 2
HIGH == 3
LIVE == 4

RequestPriority == {LOW, NORMAL, HIGH, LIVE}

\* class RequestStatus
PENDING == 1
PROCESSING == 2
COMPLETED == 3
FAILED == 4
RETRYING == 5

\* RequestQueue(REDIS_URL, max_retries=3, retry_delay=5)
max_retries == 3
retry_delay == 5

\* number of requests enqueued, with the ids 1..MaxRequests in the order of
\* their id strings
MaxRequests == 2

RequestIds == 1..MaxRequests

\* seconds the clock advances over a behaviour
MaxElapsed == 1

StartTime == CHOOSE t \in StartTimes : TRUE

queueVars == <<request, queue_key, processing_key, completed_key, failed_key>>

limiterVars == <<tokens_key, timestamp_key, worker, admitted>>

\* the QueuedRequest dataclass, without the fields that no method of the queue
\* reads back (ticker, start_date, end_date, created_at, error, result)
QueuedRequest(id, priority, status, attempts, max_attempts, updated_at) ==
    [id |-> id, priority |-> priority, status |-> status, attempts |-> attempts,
     max_attempts |-> max_attempts, updated_at |-> updated_at]

RECURSIVE Pow2(_)
Pow2(n) == IF n <= 0 THEN 1 ELSE 2 * Pow2(n - 1)

\* time passes between two calls
Tick ==
    /\ now < StartTime + MaxElapsed
    /\ now' = now + 1
    /\ UNCHANGED <<runVars, sz, queueVars, limiterVars>>

\* lines 123-189: enqueue(ticker, start_date, end_date, priority, request_id)
\* for an id not used before
enqueue(request_id, priority) ==
    /\ request_id \notin DOMAIN request
    /\ request' = Put(request, request_id,
           QueuedRequest(request_id, priority, PENDING, 0, max_retries, now))
    /\ queue_key' = Put(queue_key, request_id, priority)
    /\ UNCHANGED <<runVars, sz, now, processing_key, completed_key, failed_key,
                   limiterVars>>

\* the member bzpopmax pops: the highest score, and among equal scores the
\* greatest member
bzpopmax ==
    CHOOSE id \in DOMAIN queue_key :
        \A o \in DOMAIN queue_key :
            \/ queue_key[o] < queue_key[id]
            \/ (queue_key[o] = queue_key[id] /\ o <= id)

\* lines 191-247: dequeue() on a queue with a pending member
dequeue ==
    /\ DOMAIN queue_key # {}
    /\ LET request_id == bzpopmax
       IN  /\ queue_key' = Del(queue_key, request_id)
           /\ request' = [request EXCEPT ![request_id] =
                  [@ EXCEPT !.status = PROCESSING, !.updated_at = now]]
           /\ processing_key' = processing_key \cup {request_id}
    /\ UNCHANGED <<runVars, sz, now, completed_key, failed_key, limiterVars>>

\* lines 204-207: dequeue() on an empty queue returns None after bzpopmax has
\* blocked for its timeout of one second
dequeue_empty ==
    /\ DOMAIN queue_key = {}
    /\ now < StartTime + MaxElapsed
    /\ now' = now + 1
    /\ UNCHANGED <<runVars, sz, queueVars, limiterVars>>

\* lines 249-293: mark_completed(request_id) for a request being processed
mark_completed(request_id) ==
    /\ request_id \in processing_key
    /\ request' = [request EXCEPT ![request_id] =
           [@ EXCEPT !.status = COMPLETED, !.updated_at = now]]
    /\ processing_key' = processing_key \ {request_id}
    /\ completed_key' = completed_key \cup {request_id}
    /\ UNCHANGED <<runVars, sz, now, queue_key, failed_key, limiterVars>>

\* the request retried whenever retry is set
should_retry_Always(req, retry) == retry

\* line 326: if retry and request.attempts < request.max_attempts
should_retry(req, retry) == retry /\ req.attempts < req.max_attempts

\* lines 295-378: mark_failed(request_id, error, retry) for a request being
\* processed
mark_failed(request_id, retry) ==
    /\ request_id \in processing_key
    /\ LET failed == [request[request_id] EXCEPT
                         !.attempts = @ + 1, !.updated_at = now]
       IN  /\ processing_key' = processing_key \ {request_id}
           /\ IF should_retry(failed, retry)
              THEN LET delay == retry_delay * Pow2(failed.attempts - 1)
                       retry_time == now + delay
                   IN  /\ request' = [request EXCEPT ![request_id] =
                              [failed EXCEPT !.status = RETRYING]]
                       /\ queue_key' = Put(queue_key, request_id, retry_time)
                       /\ UNCHANGED failed_key
              ELSE /\ request' = [request EXCEPT ![request_id] =
                          [failed EXCEPT !.status = FAILED]]
                   /\ failed_key' = failed_key \cup {request_id}
                   /\ UNCHANGED queue_key
    /\ UNCHANGED <<runVars, sz, now, completed_key, limiterVars>>

QueueInit ==
    /\ ServicesInit
    /\ RunInit(Cfg(500000, TRUE, TRUE, 5, 2, 1, 95))
    /\ sz = SizingIdle

QueueNext ==
    \/ \E id \in RequestIds, priority \in RequestPriority : enqueue(id, priority)
    \/ dequeue
    \/ dequeue_empty
    \/ \E id \in RequestIds : mark_completed(id)
    \/ \E id \in RequestIds, retry \in BOOLEAN : mark_failed(id, retry)
    \/ Tick

SpecQueue == QueueInit /\ [][QueueNext]_vars

\* the step is a dequeue that handed out the request
HandedOut(id) == id \in processing_key' /\ id \notin processing_key

\* C36: dequeue returns the pending request of the highest RequestPriority
\* (LIVE > HIGH > NORMAL > LOW), also among requests that mark_failed has
\* re-queued: no request is handed out while a request of a higher priority is
\* pending.  mark_failed re-queues with the retry time as the score, which is
\* above every priority.
C36_HighestPriorityFirst ==
    [][\A id \in RequestIds :
          HandedOut(id) =>
              \A o \in DOMAIN queue_key :
                  request[o].priority <= request[id].priority]_vars

\* the same for a queue that holds no re-queued request
C36_WithoutRetries ==
    [][\A id \in RequestIds :
          (HandedOut(id)
             /\ \A o \in DOMAIN queue_key : request[o].status = PENDING) =>
              \A o \in DOMAIN queue_key :
                  request[o].priority <= request[id].priority]_vars

\* C37: a request that mark_failed re-queued after its n-th failed attempt is
\* not handed out again before retry_delay * 2^(n-1) seconds have passed since
\* the failure.  dequeue never compares the score with the clock.
C37_BackoffBeforeRetry ==
    [][\A id \in RequestIds :
          (HandedOut(id) /\ request[id].status = RETRYING) =>
              now >= request[id].updated_at
                         + retry_delay * Pow2(request[id].attempts - 1)]_vars

\* C38: with every request enqueued, dequeued and marked failed in turn, a
\* request is handed out for at most max_retries attempts, the failure of the
\* last one (or any failure marked with retry off) gives it the status FAILED
\* and puts it in the failed set, and a FAILED request is not pending again.
C38_RetriesBounded ==
    /\ [](\A id \in DOMAIN request :
             /\ request[id].attempts
                    + (IF id \in processing_key THEN 1 ELSE 0) <= max_retries
             /\ request[id].status = FAILED =>
                    (id \in failed_key /\ id \notin DOMAIN queue_key
                        /\ id \notin processing_key)
             /\ id \in failed_key => request[id].status = FAILED)
    /\ [][\A id \in DOMAIN request :
             /\ request[id].status = FAILED => request'[id] = request[id]
             /\ (id \in processing_key /\ id \notin processing_key'
                    /\ request'[id].attempts = max_retries
                    /\ request'[id].status # COMPLETED)
                   => request'[id].status = FAILED]_vars

\* a request that failed max_retries times and is FAILED, and another that was
\* marked failed with retry off after its first attempt
C38_Witness ==
    \E a, b \in DOMAIN request :
        /\ request[a].status = FAILED /\ request[a].attempts = max_retries
        /\ a \in failed_key
        /\ request[b].status = FAILED /\ request[b].attempts = 1
        /\ b \in failed_key
\* -------------------------------------------------------- RateLimiter
\* check_rate_limit(resource='yfinance', identifier, calls=48, period=60,
\* burst=10), the call of the data service
calls == 48
period == 60
burst == 10

\* token amounts are in fifths of a token, in which the refill of
\* calls / period = 0.8 tokens per second is the whole number 4
TokenScale == 5

\* line 123: refill_rate = calls / period, per second of the clock
refill_rate == (calls * TokenScale) \div period

\* check_rate_limit calls each worker makes
MaxCalls == 6

\* lines 111-130: current_time = time.time(), the pipeline of the two GETs
\* (one MULTI/EXEC), the defaults for absent keys and the refill capped at
\* burst; the worker now holds current_tokens and has written nothing
read_bucket(w) ==
    /\ worker[w].pc = "idle"
    /\ worker[w].calls < MaxCalls
    /\ LET current_time   == now
           stored_tokens  == IF tokens_key # <<>> THEN tokens_key[1]
                             ELSE burst * TokenScale
           last_update    == IF timestamp_key # <<>> THEN timestamp_key[1]
                             ELSE current_time
           time_elapsed   == current_time - last_update
           tokens_to_add  == time_elapsed * refill_rate
       IN  worker' = [worker EXCEPT ![w] =
               [@ EXCEPT !.pc = "read",
                         !.calls = @ + 1,
                         !.current_time = current_time,
                         !.current_tokens =
                             Min2(burst * TokenScale,
                                  stored_tokens + tokens_to_add)]]
    /\ UNCHANGED <<runVars, sz, now, queueVars, tokens_key, timestamp_key,
                   admitted>>

\* lines 133-154: with one token or more the worker takes one, writes the
\* count and its current_time back (the pipeline of the two SETs) and returns
\* True
allow(w) ==
    /\ worker[w].pc = "read"
    /\ worker[w].current_tokens >= TokenScale
    /\ tokens_key' = <<worker[w].current_tokens - TokenScale>>
    /\ timestamp_key' = <<worker[w].current_time>>
    /\ worker' = [worker EXCEPT ![w] =
           [@ EXCEPT !.pc = "idle", !.allowed = TRUE,
                     !.current_tokens = @ - TokenScale]]
    /\ admitted' = admitted + 1
    /\ UNCHANGED <<runVars, sz, now, queueVars>>

\* lines 155-171: with less than one token the worker returns False and
\* writes nothing
deny(w) ==
    /\ worker[w].pc = "read"
    /\ worker[w].current_tokens < TokenScale
    /\ worker' = [worker EXCEPT ![w] = [@ EXCEPT !.pc = "idle", !.allowed = FALSE]]
    /\ UNCHANGED <<runVars, sz, now, queueVars, tokens_key, timestamp_key,
                   admitted>>

LimiterInit ==
    /\ ServicesInit
    /\ RunInit(Cfg(500000, TRUE, TRUE, 5, 2, 1, 95))
    /\ sz = SizingIdle

LimiterNext ==
    \/ \E w \in Workers : read_bucket(w)
    \/ \E w \in Workers : allow(w)
    \/ \E w \in Workers : deny(w)
    \/ Tick

SpecLimiter == LimiterInit /\ [][LimiterNext]_vars

\* C39: for one bucket, check_rate_limit calls of several workers never admit
\* more requests than there are tokens: the calls that returned True number at
\* most burst plus the refill accrued since the bucket was full (so two
\* interleaved calls on a bucket holding one token, with no refill, are not
\* both allowed), and the stored token count is never above burst nor below
\* 0.  The GETs and the SETs of a call are two Redis round trips, and two
\* workers that read the same count both take the token.
C39_NeverAdmitsBeyondTokens ==
    /\ admitted * TokenScale
           <= burst * TokenScale + (now - StartTime) * refill_rate
    /\ tokens_key # <<>> =>
           (tokens_key[1] >= 0 /\ tokens_key[1] <= burst * TokenScale)

\* the half of C39 about the stored count
C39_StoredTokensInRange ==
    tokens_key # <<>> =>
        (tokens_key[1] >= 0 /\ tokens_key[1] <= burst * TokenScale)
====
